---- MODULE Spec2Model ----
(***************************************************************************)
(* A model of the retrieval-caching orchestrator: the file-per-key         *)
(* response cache (response_cache.py), the query validation of the vector  *)
(* search (query.py) and the request control flow (contextual_response.py).*)
(*                                                                         *)
(* Python values are tagged pairs <<type, payload>>, so that values of     *)
(* different Python types can be told apart without comparing payloads:    *)
(*   <<"str", s>>, <<"float", repr>>, <<"bool", b>>, <<"NoneType", <<>>>>, *)
(*   <<"list", <<v1, ..., vn>>>>,                                          *)
(*   <<"dict", << <<k1, v1>>, ..., <<kn, vn>> >>>>  (items in insertion    *)
(*   order, keys unique).                                                  *)
(***************************************************************************)
EXTENDS Integers, Sequences, FiniteSets, Bags, TLC

VARIABLES files, stats, now, calls, last, derived, threads, waiting, instance, chat

vars == <<files, stats, now, calls, last, derived, threads, waiting, instance, chat>>

(***************************************************************************)
(* Bounds of the model.                                                    *)
(***************************************************************************)
MaxCalls == 3
MaxContext == 2
MaxQueryLen == 4
ttl_hours == 2
MaxThreads == 2
MaxQueries == 2
MaxRequests == 2
MaxTime == ttl_hours + 1

(***************************************************************************)
(* Python values.                                                          *)
(***************************************************************************)
Str(s) == <<"str", s>>
Float(r) == <<"float", r>>
Bool(b) == <<"bool", b>>
Integer(n) == <<"int", n>>
List(xs) == <<"list", xs>>
Dict(items) == <<"dict", items>>
None == <<"NoneType", <<>>>>

TypeOf(v) == v[1]
Payload(v) == v[2]

HasKey(d, k) == \E i \in 1..Len(Payload(d)) : Payload(d)[i][1] = k

Lookup(d, k) ==
  LET i == CHOOSE j \in 1..Len(Payload(d)) : Payload(d)[j][1] = k
  IN Payload(d)[i][2]

\* d[k] = v on a dict: replaces the value in place, or appends a new item.
SetItem(d, k, v) ==
  IF HasKey(d, k)
  THEN Dict([i \in 1..Len(Payload(d)) |->
               IF Payload(d)[i][1] = k THEN <<k, v>> ELSE Payload(d)[i]])
  ELSE Dict(Append(Payload(d), <<k, v>>))

\* Python ==: dicts compare as mappings (insertion order is ignored),
\* lists elementwise, everything else by type and value.
RECURSIVE PyEq(_, _)
PyEq(a, b) ==
  IF TypeOf(a) # TypeOf(b) THEN FALSE
  ELSE IF TypeOf(a) = "dict"
  THEN /\ Len(Payload(a)) = Len(Payload(b))
       /\ \A i \in 1..Len(Payload(a)) :
            /\ HasKey(b, Payload(a)[i][1])
            /\ PyEq(Payload(a)[i][2], Lookup(b, Payload(a)[i][1]))
  ELSE IF TypeOf(a) = "list"
  THEN /\ Len(Payload(a)) = Len(Payload(b))
       /\ \A i \in 1..Len(Payload(a)) : PyEq(Payload(a)[i], Payload(b)[i])
  ELSE Payload(a) = Payload(b)

(***************************************************************************)
(* Strings: ordering, trimming, JSON escaping.                             *)
(***************************************************************************)
Whitespace == {" "}

CharAt(s, i) == SubSeq(s, i, i)

\* The place of c among the characters of the model in code point order.
Ord(c) ==
  LET Alphabet == " \"#()+-.0123456789:?ABCDEFGHIJKLMNOPQRSTUVWXYZ\\_abcdefghijklmnopqrstuvwxyz"
  IN CHOOSE i \in 1..Len(Alphabet) : CharAt(Alphabet, i) = c

\* s < t on Python strings (lexicographic by code point).
RECURSIVE StrLess(_, _)
StrLess(s, t) ==
  IF Len(t) = 0 THEN FALSE
  ELSE IF Len(s) = 0 THEN TRUE
  ELSE IF Head(s) = Head(t) THEN StrLess(Tail(s), Tail(t))
  ELSE Ord(Head(s)) < Ord(Head(t))

RECURSIVE lstrip(_)
lstrip(s) ==
  IF Len(s) > 0 /\ Head(s) \in Whitespace THEN lstrip(Tail(s)) ELSE s

RECURSIVE rstrip(_)
rstrip(s) ==
  IF Len(s) > 0 /\ CharAt(s, Len(s)) \in Whitespace
  THEN rstrip(SubSeq(s, 1, Len(s) - 1)) ELSE s

\* No trimming at all.
strip_nothing(s) == s

\* str.strip()
strip(s) == rstrip(lstrip(s))

\* The body of a JSON string literal: quote and backslash are escaped.
RECURSIVE Escape(_)
Escape(s) ==
  IF Len(s) = 0 THEN ""
  ELSE (IF Head(s) = "\"" THEN "\\\""
        ELSE IF Head(s) = "\\" THEN "\\\\"
        ELSE Head(s)) \o Escape(Tail(s))

(***************************************************************************)
(* json.dumps(value, sort_keys=...) with the default separators.           *)
(***************************************************************************)
\* Insertion of an item into a list of items sorted by key.
RECURSIVE InsertItem(_, _)
InsertItem(item, sorted) ==
  IF Len(sorted) = 0 THEN <<item>>
  ELSE IF StrLess(item[1], Head(sorted)[1]) THEN <<item>> \o sorted
  ELSE <<Head(sorted)>> \o InsertItem(item, Tail(sorted))

RECURSIVE SortItems(_)
SortItems(items) ==
  IF Len(items) = 0 THEN <<>>
  ELSE InsertItem(Head(items), SortItems(Tail(items)))

RECURSIVE Join(_, _)
Join(parts, sep) ==
  IF Len(parts) = 0 THEN ""
  ELSE IF Len(parts) = 1 THEN Head(parts)
  ELSE Head(parts) \o sep \o Join(Tail(parts), sep)

RECURSIVE json_dumps(_, _)
json_dumps(v, sort_keys) ==
  CASE TypeOf(v) = "str" -> "\"" \o Escape(Payload(v)) \o "\""
    [] TypeOf(v) = "float" -> Payload(v)
    [] TypeOf(v) = "bool" -> IF Payload(v) THEN "true" ELSE "false"
    [] TypeOf(v) = "NoneType" -> "null"
    [] TypeOf(v) = "list" ->
         "[" \o Join([i \in 1..Len(Payload(v)) |->
                        json_dumps(Payload(v)[i], sort_keys)], ", ") \o "]"
    [] TypeOf(v) = "dict" ->
         LET items == IF sort_keys THEN SortItems(Payload(v)) ELSE Payload(v)
         IN "{" \o Join([i \in 1..Len(items) |->
                           "\"" \o Escape(items[i][1]) \o "\": "
                             \o json_dumps(items[i][2], sort_keys)], ", ") \o "}"

(***************************************************************************)
(* Cache key derivation (ResponseCache).                                   *)
(***************************************************************************)
\* hashlib.sha256(data).hexdigest(): the digest is kept symbolic, as a value
\* determined by the hashed text and by nothing else (no two texts of the
\* model collide).
sha256_hexdigest(data) == <<"sha256", data>>

\* _context_hash without sort_keys: the items are written in insertion order.
_context_hash_unsorted(context) == sha256_hexdigest(json_dumps(context, FALSE))

\* _generate_cache_key that hashes the query alone.
_generate_cache_key_query_only(query, context_hash) ==
  sha256_hexdigest(<<query \o ":", sha256_hexdigest("")>>)

\* ResponseCache._context_hash
_context_hash(context) == sha256_hexdigest(json_dumps(context, TRUE))

\* ResponseCache._generate_cache_key: the hashed text is the query, a colon
\* and the 64 hexadecimal digits of the context hash; the pair below is that
\* text split at its last 64 characters.
_generate_cache_key(query, context_hash) ==
  sha256_hexdigest(<<query \o ":", context_hash>>)

(***************************************************************************)
(* Retrieved passages (VectorDBQuery._format_result) and the inputs of the *)
(* model.                                                                  *)
(***************************************************************************)
\* The dict _format_result builds, with its keys in insertion order.
_format_result(score, content, channel_id, user_name, timestamp, message_id) ==
  Dict(<< <<"relevance_score", Float(score)>>,
          <<"message", Dict(<< <<"content", Str(content)>>,
                               <<"channel_id", Str(channel_id)>>,
                               <<"user_name", Str(user_name)>>,
                               <<"timestamp", Str(timestamp)>>,
                               <<"message_id", Str(message_id)>> >>)>> >>)

P0 == _format_result("0.9", "use vim", "general", "ann", "2024-01-01 10:00:00", "m1")

\* P0 with another message id.
P0_id == _format_result("0.9", "use vim", "general", "ann", "2024-01-01 10:00:00", "m2")

\* The same dict as d with its items inserted in the opposite order, at
\* every level: equal to d by value.
RECURSIVE Reinserted(_)
Reinserted(d) ==
  IF TypeOf(d) = "dict"
  THEN Dict([i \in 1..Len(Payload(d)) |->
               LET item == Payload(d)[Len(Payload(d)) + 1 - i]
               IN <<item[1], Reinserted(item[2])>>])
  ELSE d

\* All lists of at most n elements of S.
RECURSIVE ListsUpTo(_, _)
ListsUpTo(S, n) ==
  IF n = 0 THEN {<<>>}
  ELSE LET shorter == ListsUpTo(S, n - 1)
       IN shorter \cup {Append(l, x) : l \in {m \in shorter : Len(m) = n - 1}, x \in S}

(***************************************************************************)
(* Inputs of the requests.                                                 *)
(***************************************************************************)
\* What the similarity search returns for the query of the requests: one
\* message, or, once a better match is indexed, two.
Contexts ==
  {List(<<P0>>),
   List(<<_format_result("0.8", "use emacs", "general", "bob", "2024-01-01 11:00:00", "m2"), P0>>)}

Answers == {"A1", "A2"}

LlmOutcomes ==
  {[ok |-> TRUE, text |-> a] : a \in Answers} \cup {[ok |-> FALSE, text |-> ""]}

\* The outcomes of the cache write: the file is written; open() raises and
\* the file is left as it was; a write raises after open() has truncated the
\* file, which is left with a part of the text.
IoOutcomes == {"ok", "OSError", "OSError in write"}

\* The queries of the requests.
ServiceQueries == {"ab", "abc"}

\* The query of the direct calls of the cache store.
CacheQueries == {"abc"}

\* All strings of at most n characters of S.
RECURSIVE StringsUpTo(_, _)
StringsUpTo(S, n) ==
  IF n = 0 THEN {""}
  ELSE LET shorter == StringsUpTo(S, n - 1)
       IN shorter \cup {s \o c : s \in {m \in shorter : Len(m) = n - 1}, c \in S}

\* The queries validation is tried on.
ValidationQueries == StringsUpTo({"a", " "}, MaxQueryLen)

\* The inputs key derivation is tried on.
KeyQueries == {"abc", "abd"}
\* P0, P0 with exactly one field changed (the score, the content, the
\* channel, the user, the time, the message id), and P0 built in another
\* order of insertion.
KeyPassages ==
  {P0,
   _format_result("0.5", "use vim", "general", "ann", "2024-01-01 10:00:00", "m1"),
   _format_result("0.9", "use \"vim\"", "general", "ann", "2024-01-01 10:00:00", "m1"),
   _format_result("0.9", "use vim", "help", "ann", "2024-01-01 10:00:00", "m1"),
   _format_result("0.9", "use vim", "general", "bob", "2024-01-01 10:00:00", "m1"),
   _format_result("0.9", "use vim", "general", "ann", "Unknown Time", "m1"),
   P0_id, Reinserted(P0)}
KeyContexts == {List(l) : l \in ListsUpTo(KeyPassages, MaxContext)}

\* The context hashes of the contexts of the model, computed once: those of
\* the search results, and those of the passage lists of key derivation.
ContextHashes == [context \in Contexts |-> _context_hash(context)]
KeyContextHashes == [context \in KeyContexts |-> _context_hash(context)]

\* get and set derive the key from their arguments.
CacheKey(query, context) ==
  _generate_cache_key(query, IF context \in Contexts
                             THEN ContextHashes[context]
                             ELSE KeyContextHashes[context])

(***************************************************************************)
(* The cache directory: one file per cache key, holding a text.  A text is *)
(* either a JSON document, kept as the value it denotes, or a text that is *)
(* not JSON.                                                               *)
(***************************************************************************)
\* json.dump(value, f, ensure_ascii=False, indent=2): the text written.
json_dump(value) == <<"json", value>>

\* json.load(f): the value, or JSONDecodeError.
IsJson(text) == text[1] = "json"
json_load(text) == text[2]

\* The text under a key that has no file.
Absent == <<"absent", "">>

\* The text of the file of a key, and of the key of (query, context).
TextAt(fs, key) == IF key \in DOMAIN fs THEN fs[key] ELSE Absent
Stored(fs, query, context) == TextAt(fs, CacheKey(query, context))

Unlink(fs, key) == [k \in DOMAIN fs \ {key} |-> fs[k]]
WriteFile(fs, key, text) ==
  [k \in DOMAIN fs \cup {key} |-> IF k = key THEN text ELSE fs[k]]

\* The clock counts hours of one day; datetime.isoformat() of an instant.
Instants == 0..23

IsoText ==
  [t \in Instants |-> "2024-01-01T" \o (IF t < 10 THEN "0" ELSE "") \o ToString(t) \o ":00:00"]

\* datetime.fromisoformat(s): the instant, or ValueError when s is not in
\* ISO format.
IsIsoFormat(s) == \E t \in Instants : IsoText[t] = s
fromisoformat(s) == CHOOSE t \in Instants : IsoText[t] = s

\* A ttl that an entry of age ttl_hours has outlived.
ttl_exclusive == ttl_hours - 1

\* A ttl of ttl_hours days: timedelta(days=ttl_hours).
ttl_in_days == 24 * ttl_hours

\* self.ttl = timedelta(hours=ttl_hours)
ttl == ttl_hours

\* self.stats[counter] += 1
Incr(st, counter) == [st EXCEPT ![counter] = @ + 1]

ZeroStats == [hits |-> 0, misses |-> 0, expired |-> 0, errors |-> 0]

(***************************************************************************)
(* ResponseCache.get: the returned entry (None when absent), the exception *)
(* that leaves the call ("none" when it returns), and the directory and    *)
(* the counters after the call.                                            *)
(***************************************************************************)
\* The body of get once the key is derived: the file of cache_key is looked
\* up, read, and judged.
\*   except (json.JSONDecodeError, KeyError, ValueError): the file is
\*   deleted and errors counted; any other exception leaves get.
_read(fs, st, t, cache_key) ==
  IF cache_key \notin DOMAIN fs
  THEN [ret |-> None, raised |-> "none", files |-> fs,
        stats |-> Incr(st, "misses")]
  ELSE IF ~IsJson(fs[cache_key])
  THEN [ret |-> None, raised |-> "none", files |-> Unlink(fs, cache_key),
        stats |-> Incr(st, "errors")]
  ELSE LET cached_data == json_load(fs[cache_key])
       IN IF TypeOf(cached_data) # "dict"
          THEN [ret |-> None, raised |-> "TypeError", files |-> fs, stats |-> st]
          ELSE IF ~HasKey(cached_data, "timestamp")
          THEN [ret |-> None, raised |-> "none",
                files |-> Unlink(fs, cache_key), stats |-> Incr(st, "errors")]
          ELSE IF TypeOf(Lookup(cached_data, "timestamp")) # "str"
          THEN [ret |-> None, raised |-> "TypeError", files |-> fs, stats |-> st]
          ELSE IF ~IsIsoFormat(Payload(Lookup(cached_data, "timestamp")))
          THEN [ret |-> None, raised |-> "none",
                files |-> Unlink(fs, cache_key), stats |-> Incr(st, "errors")]
          ELSE IF t - fromisoformat(Payload(Lookup(cached_data, "timestamp"))) > ttl
          THEN [ret |-> None, raised |-> "none",
                files |-> Unlink(fs, cache_key),
                stats |-> Incr(st, "expired")]
          ELSE [ret |-> SetItem(cached_data, "cached", Bool(TRUE)),
                raised |-> "none", files |-> fs,
                stats |-> Incr(st, "hits")]

\* A get that removes the records of every key but its own.
get_clears_others(fs, st, t, query, context) ==
  [_read(fs, st, t, CacheKey(query, context)) EXCEPT
     !.files = [k \in DOMAIN @ \cap {CacheKey(query, context)} |-> @[k]]]

\* A get that renews the timestamp of the record it serves.
get_refreshes(fs, st, t, query, context) ==
  [_read(fs, st, t, CacheKey(query, context)) EXCEPT
     !.files = IF _read(fs, st, t, CacheKey(query, context)).ret = None THEN @
               ELSE WriteFile(@, CacheKey(query, context),
                              json_dump(SetItem(json_load(Stored(fs, query, context)),
                                                "timestamp", Str(IsoText[t]))))]

get(fs, st, t, query, context) == _read(fs, st, t, CacheKey(query, context))

\* The text of a file whose writing was cut short.
PartialText == <<"text", "{\"answer\": ">>

\* A set that does not count a failed write.
set_raises(fs, st, query, context, response, io) ==
  [files |-> IF io = "ok"
             THEN WriteFile(fs, CacheKey(query, context), json_dump(response))
             ELSE fs,
   stats |-> st]

\* A set that writes nothing.
set_never_writes(fs, st, query, context, response, io) ==
  [files |-> fs, stats |-> st]

\* A set that keeps an existing record.
set_if_absent(fs, st, query, context, response, io) ==
  IF io # "ok" THEN [files |-> fs, stats |-> Incr(st, "errors")]
  ELSE IF Stored(fs, query, context) # Absent THEN [files |-> fs, stats |-> st]
  ELSE [files |-> WriteFile(fs, CacheKey(query, context), json_dump(response)),
        stats |-> st]

(***************************************************************************)
(* ResponseCache.set: io is the outcome of opening and writing the file.   *)
(***************************************************************************)
set(fs, st, query, context, response, io) ==
  IF io = "ok"
  THEN [files |-> WriteFile(fs, CacheKey(query, context), json_dump(response)),
        stats |-> st]
  ELSE IF io = "OSError in write"
  THEN [files |-> WriteFile(fs, CacheKey(query, context), PartialText),
        stats |-> Incr(st, "errors")]
  ELSE [files |-> fs, stats |-> Incr(st, "errors")]

(***************************************************************************)
(* ResponseCache.clear_expired                                             *)
(***************************************************************************)
\* The outcome of the loop body for one file: "keep", "expired" or "error".
Sweep(text, t) ==
  IF ~IsJson(text) THEN "error"
  ELSE LET cached_data == json_load(text)
       IN IF TypeOf(cached_data) # "dict" THEN "error"
          ELSE IF ~HasKey(cached_data, "timestamp") THEN "error"
          ELSE IF TypeOf(Lookup(cached_data, "timestamp")) # "str" THEN "error"
          ELSE IF ~IsIsoFormat(Payload(Lookup(cached_data, "timestamp"))) THEN "error"
          ELSE IF t - fromisoformat(Payload(Lookup(cached_data, "timestamp"))) > ttl
          THEN "expired"
          ELSE "keep"

\* A sweep that starts the counters again.
clear_expired_resets_counters(fs, st, t) ==
  [cleared_count |-> Cardinality({k \in DOMAIN fs : Sweep(fs[k], t) # "keep"}),
   files |-> [k \in {j \in DOMAIN fs : Sweep(fs[j], t) = "keep"} |-> fs[k]],
   stats |-> ZeroStats]

\* A sweep that passes over the records it cannot read.
clear_expired_skips_unreadable(fs, st, t) ==
  [cleared_count |-> Cardinality({k \in DOMAIN fs : Sweep(fs[k], t) = "expired"}),
   files |-> [k \in {j \in DOMAIN fs : Sweep(fs[j], t) # "expired"} |-> fs[k]],
   stats |-> [st EXCEPT !.expired =
                @ + Cardinality({k \in DOMAIN fs : Sweep(fs[k], t) = "expired"})]]

clear_expired(fs, st, t) ==
  LET gone(kind) == {k \in DOMAIN fs : Sweep(fs[k], t) = kind}
  IN [cleared_count |-> Cardinality(gone("expired")) + Cardinality(gone("error")),
      files |-> [k \in gone("keep") |-> fs[k]],
      stats |-> [st EXCEPT !.expired = @ + Cardinality(gone("expired")),
                           !.errors = @ + Cardinality(gone("error"))]]

(***************************************************************************)
(* VectorDBQuery._validate_query: "ok", or the message of the QueryError.  *)
(***************************************************************************)
_validate_query(query) ==
  IF query = "" THEN "Query must be a non-empty string"
  ELSE IF Len(strip(query)) < 3 THEN "Query must be at least 3 characters long"
  ELSE "ok"

(***************************************************************************)
(* ContextualResponseGenerator._format_context                             *)
(***************************************************************************)
_format_context(results) ==
  Join([i \in 1..Len(Payload(results)) |->
          LET message == Lookup(Payload(results)[i], "message")
          IN ToString(i) \o ". " \o Payload(Lookup(message, "user_name"))
               \o " in #" \o Payload(Lookup(message, "channel_id"))
               \o " (" \o Payload(Lookup(message, "timestamp")) \o "): "
               \o Payload(Lookup(message, "content"))], "\n")

\* The outcome of validation and the context text of all inputs of the
\* model, computed once.
Validated == [query \in ServiceQueries \cup ValidationQueries \cup KeyQueries |-> _validate_query(query)]
Formatted == [results \in Contexts |-> _format_context(results)]

\* A test that no value passes.
Truthy_never(v) == FALSE

\* bool(value) for the values get returns.
Truthy(v) ==
  CASE TypeOf(v) = "NoneType" -> FALSE
    [] TypeOf(v) = "dict" -> Len(Payload(v)) > 0
    [] TypeOf(v) = "list" -> Len(Payload(v)) > 0
    [] OTHER -> TRUE

(***************************************************************************)
(* ContextualResponseGenerator.generate_response.                          *)
(* search is the outcome of the similarity search, llm the outcome of the  *)
(* chain invocation, io the outcome of the cache write.  The result tells  *)
(* what the call returns or raises, how often each collaborator and the    *)
(* cache were called, and the directory and the counters after the call.   *)
(***************************************************************************)
NoPrompt == [context |-> "", query |-> ""]

\* "Check cache first if enabled"
cache_lookup(fs, st, t, query, search_results, use_cache) ==
  IF use_cache THEN get(fs, st, t, query, search_results)
  ELSE [ret |-> None, raised |-> "none", files |-> fs, stats |-> st]

\* A write that does not look at use_cache.
write_through_always(fs, st, query, search_results, response_obj, use_cache, io) ==
  set(fs, st, query, search_results, response_obj, io)

\* "Cache the response if enabled"
write_through(fs, st, query, search_results, response_obj, use_cache, io) ==
  IF use_cache THEN set(fs, st, query, search_results, response_obj, io)
  ELSE [files |-> fs, stats |-> st]

\* The QueryError a call ends with.
fails(msg, retrievals, generations, gets, prompt, fs, st) ==
  [ret |-> None, raised |-> "QueryError", message |-> msg,
   retrievals |-> retrievals, generations |-> generations, gets |-> gets,
   sets |-> 0, prompt |-> prompt, files |-> fs, stats |-> st]

\* A call that writes the entry before the chain has answered.
_generate_stores_first(query, search_results, use_cache, llm, io, gets, prompt, response_obj, fs, st) ==
  [ret |-> IF llm.ok THEN response_obj ELSE None,
   raised |-> IF llm.ok THEN "none" ELSE "QueryError",
   message |-> IF llm.ok THEN "" ELSE "Error generating response",
   retrievals |-> 1, generations |-> 1, gets |-> gets,
   sets |-> IF use_cache THEN 1 ELSE 0, prompt |-> prompt,
   files |-> write_through(fs, st, query, search_results, response_obj,
                           use_cache, io).files,
   stats |-> write_through(fs, st, query, search_results, response_obj,
                           use_cache, io).stats]

\* A call that invokes the chain a second time when the first has failed.
_generate_retries(query, search_results, use_cache, llm, io, gets, prompt, response_obj, fs, st) ==
  [ret |-> response_obj, raised |-> "none", message |-> "",
   retrievals |-> 1, generations |-> IF llm.ok THEN 1 ELSE 2, gets |-> gets,
   sets |-> IF use_cache THEN 1 ELSE 0, prompt |-> prompt,
   files |-> write_through(fs, st, query, search_results, response_obj,
                           use_cache, io).files,
   stats |-> write_through(fs, st, query, search_results, response_obj,
                           use_cache, io).stats]

\* "Generate response" and "Create response object", then the cache write:
\* the chain is invoked with the formatted context and the query.
_generate(query, search_results, use_cache, llm, io, gets, prompt, response_obj, fs, st) ==
  IF ~llm.ok
  THEN fails("Error generating response", 1, 1, gets, prompt, fs, st)
  ELSE [ret |-> response_obj, raised |-> "none", message |-> "",
        retrievals |-> 1, generations |-> 1, gets |-> gets,
        sets |-> IF use_cache THEN 1 ELSE 0, prompt |-> prompt,
        files |-> write_through(fs, st, query, search_results, response_obj,
                                use_cache, io).files,
        stats |-> write_through(fs, st, query, search_results, response_obj,
                                use_cache, io).stats]

\* The call after the cache was looked up: looked is what get returned.
_respond(t, query, search_results, use_cache, llm, io, looked) ==
  IF looked.raised # "none"
  THEN fails("Error generating response", 1, 0, IF use_cache THEN 1 ELSE 0,
             NoPrompt, looked.files, looked.stats)
  ELSE IF use_cache /\ Truthy(looked.ret)
  THEN [ret |-> looked.ret, raised |-> "none", message |-> "",
        retrievals |-> 1, generations |-> 0, gets |-> 1, sets |-> 0,
        prompt |-> NoPrompt, files |-> looked.files, stats |-> looked.stats]
  ELSE _generate(query, search_results, use_cache, llm, io,
                 IF use_cache THEN 1 ELSE 0,
                 [context |-> Formatted[search_results], query |-> query],
                 Dict(<< <<"answer", Str(llm.text)>>,
                         <<"context", search_results>>,
                         <<"timestamp", Str(IsoText[t])>>,
                         <<"query", Str(query)>>,
                         <<"cached", Bool(FALSE)>> >>),
                 looked.files, looked.stats)

\* A call that counts a rejected query as an error of the cache.
_search_counts_rejected(fs, st, t, query, search, use_cache, llm, io, valid) ==
  IF valid # "ok" THEN fails(valid, 0, 0, 0, NoPrompt, fs, Incr(st, "errors"))
  ELSE IF ~search.ok
  THEN fails("Error performing search", 1, 0, 0, NoPrompt, fs, st)
  ELSE _respond(t, query, search.results, use_cache, llm, io,
                cache_lookup(fs, st, t, query, search.results, use_cache))

\* The call after validation: valid is the outcome of _validate_query.
_search(fs, st, t, query, search, use_cache, llm, io, valid) ==
  IF valid # "ok" THEN fails(valid, 0, 0, 0, NoPrompt, fs, st)
  ELSE IF ~search.ok
  THEN fails("Error performing search", 1, 0, 0, NoPrompt, fs, st)
  ELSE _respond(t, query, search.results, use_cache, llm, io,
                cache_lookup(fs, st, t, query, search.results, use_cache))

generate_response(fs, st, t, query, search, use_cache, llm, io) ==
  _search(fs, st, t, query, search, use_cache, llm, io, Validated[query])

(***************************************************************************)
(* State: the cache directory, the counters of the ResponseCache instance, *)
(* the clock, the number of calls made, the record of the last call, the   *)
(* key derivations made so far, the number of the ResponseCache instance   *)
(* (1 for the first, one more for each that is created on the directory),  *)
(* and the messages in the chat storage, oldest first.                     *)
(***************************************************************************)
NoFiles == [k \in {} |-> <<"text", "">>]

\* The record of a call: its arguments, what it returned or raised, how
\* often it called the search, the chain, get and set, the prompt handed to
\* the chain, the outcome of the cache write ("none" without a write), and
\* the text that was stored under its key when it began.  A request of the
\* HTTP endpoint also records send_to_chat and channel_id, the outcomes of
\* the chain and of the writes to the chat storage it met, the status and
\* the detail of its reply, how often it called the delivery, and the
\* messages it added to the chat storage.  A call of the delivery records
\* the content it was given to send.
NoCall ==
  [op |-> "none", query |-> "", context |-> None, use_cache |-> FALSE,
   ret |-> None, raised |-> "none", message |-> "",
   retrievals |-> 0, generations |-> 0, gets |-> 0, sets |-> 0,
   prompt |-> NoPrompt, write |-> "none", before |-> Absent,
   send_to_chat |-> FALSE, channel_id |-> "", search_ok |-> FALSE,
   llm |-> [ok |-> FALSE, text |-> ""], firestore |-> <<>>,
   status |-> 0, detail |-> "", deliveries |-> 0, sent |-> <<>>,
   content |-> ""]

\* The threads that call the cache store at the same time, and a thread
\* that is in no call: op is the call, pc its position, text the content it
\* read, counter and seen the counter it is incrementing and the value it
\* loaded, entry what a set writes, old the text stored when the set opened
\* the file, fd the state of the open file ("open"; "orphan" once the file
\* was unlinked under it), ret and raised the outcome.
Threads == 1..MaxThreads

Idle ==
  [op |-> "none", pc |-> "idle", text |-> Absent, counter |-> "none",
   seen |-> 0, entry |-> None, old |-> Absent, fd |-> "none",
   ret |-> None, raised |-> "none"]

Init ==
  /\ files = NoFiles
  /\ stats = ZeroStats
  /\ now = 0
  /\ calls = 0
  /\ last = NoCall
  /\ derived = <<>>
  /\ threads = [th \in Threads |-> Idle]
  /\ waiting = EmptyBag
  /\ instance = 1
  /\ chat = <<>>

\* A call is recorded and its effect applied; the messages it sent are in
\* the chat storage, under its channel.
Called(record, fs, st) ==
  /\ calls' = calls + 1
  /\ last' = record
  /\ files' = fs
  /\ stats' = st
  /\ chat' = chat \o [i \in 1..Len(record.sent) |->
                         [channel_id |-> record.channel_id,
                          content |-> record.sent[i]]]
  /\ UNCHANGED <<now, derived, threads, waiting, instance>>

\* The calls that wait while the calls of others run: pc is where the call
\* waits ("invoke": in chain.invoke, for the language model; "add": in the
\* first messages_ref.add of the delivery of a request of the endpoint,
\* when generate_response has returned; "sleep": in time.sleep(1) of the
\* delivery, behind the typing indicator) and entry is its record so far.
\* At most MaxThreads calls wait at once.
Parked(pc, record) == SetToBag({[pc |-> pc, entry |-> record]})

\* A call that does not wait for the chain goes on as record: one that
\* calls the delivery for the help channel waits in the first
\* messages_ref.add of handle_query_response, any other call is over.  For
\* a request of the endpoint the work on the cache is done before.
Settled(record, fs, st) ==
  IF record.deliveries > 0
  THEN /\ BagCardinality(waiting) < MaxThreads
       /\ waiting' = waiting (+) Parked("add", record)
       /\ files' = fs
       /\ stats' = st
       /\ UNCHANGED <<now, calls, last, derived, threads, instance, chat>>
  ELSE Called(record, fs, st)

\* The call w returns as record; the messages of record behind the first
\* n are added to the chat storage.
Leaves(w, record, n) ==
  /\ calls' = calls + 1
  /\ last' = record
  /\ chat' = chat \o [i \in 1..(Len(record.sent) - n) |->
                         [channel_id |-> record.channel_id,
                          content |-> record.sent[i + n]]]
  /\ waiting' = waiting (-) Parked(w.pc, w.entry)

\* The first messages_ref.add of the delivery of the call w is over, and
\* record is the call when the adds end as firestore: the typing indicator
\* is added and the call waits in time.sleep(1), or the add has raised, the
\* apology is added unless its add raises too, and the call returns.
Posts(w, firestore, record) ==
  IF firestore[1]
  THEN /\ waiting' = (waiting (-) Parked("add", w.entry)) (+) Parked("sleep", [w.entry EXCEPT !.sent = <<record.sent[1]>>, !.firestore = <<TRUE>>])
       /\ chat' = Append(chat, [channel_id |-> record.channel_id, content |-> record.sent[1]])
       /\ UNCHANGED <<calls, last>>
  ELSE Leaves(w, record, 0)

\* The outcomes of a collaborator are enumerated only in the calls that
\* reach it: reached tells how often a call with the given inputs invokes
\* the search, the chain and the cache write.
Reached(query, search, use_cache) ==
  generate_response(files, stats, now, query, search, use_cache,
                    [ok |-> TRUE, text |-> "A1"], "ok")

\* The record of a call of generate_response that ended as r.
Responded(query, search, use_cache, io, before, r) ==
  Called([NoCall EXCEPT !.op = "generate_response", !.query = query,
            !.context = search.results, !.use_cache = use_cache,
            !.ret = r.ret, !.raised = r.raised, !.message = r.message,
            !.retrievals = r.retrievals, !.generations = r.generations,
            !.gets = r.gets, !.sets = r.sets, !.prompt = r.prompt,
            !.write = IF r.sets > 0 THEN io ELSE "none",
            !.before = before],
         r.files, r.stats)

\* generate_response has looked up the cache and invokes the chain: the
\* call of record waits for the language model while the calls of others
\* run; looked is what the lookup left.
Invokes(record, looked) ==
  /\ BagCardinality(waiting) < MaxThreads
  /\ waiting' = waiting (+) Parked("invoke", record)
  /\ files' = looked.files
  /\ stats' = looked.stats
  /\ UNCHANGED <<now, calls, last, derived, threads, instance, chat>>

\* A call of generate_response begins: it is over in one step when it
\* does not reach the chain, and waits in chain.invoke when it does.  The
\* wait for the similarity search lies before the first access to the
\* cache, and a call begins here when the search has answered.
GenerateResponse(Q) ==
  \E query \in Q, use_cache \in BOOLEAN :
  \E search \in IF Validated[query] = "ok"
                 THEN {[ok |-> TRUE, results |-> c] : c \in Contexts} \cup {[ok |-> FALSE, results |-> None]}
                 ELSE {[ok |-> FALSE, results |-> None]} :
    IF Reached(query, search, use_cache).generations > 0
    THEN Invokes([NoCall EXCEPT !.op = "generate_response", !.query = query,
                    !.context = search.results, !.use_cache = use_cache,
                    !.retrievals = Reached(query, search, use_cache).retrievals,
                    !.gets = Reached(query, search, use_cache).gets,
                    !.before = Stored(files, query, search.results)],
                 cache_lookup(files, stats, now, query, search.results, use_cache))
    ELSE Responded(query, search, use_cache, "ok",
                   IF search.ok THEN Stored(files, query, search.results) ELSE Absent,
                   generate_response(files, stats, now, query, search, use_cache,
                                     [ok |-> FALSE, text |-> ""], "ok"))

\* The call w, which waited in chain.invoke, goes on as record when
\* generate_response has returned or raised: a request of the endpoint
\* that calls the delivery waits in its first messages_ref.add, any other
\* call returns.
Resumed(w, record, fs, st) ==
  IF record.deliveries > 0
  THEN /\ waiting' = (waiting (-) Parked("invoke", w.entry)) (+) Parked("add", record)
       /\ files' = fs
       /\ stats' = st
       /\ UNCHANGED <<now, calls, last, derived, threads, instance, chat>>
  ELSE /\ calls' = calls + 1
       /\ last' = record
       /\ files' = fs
       /\ stats' = st
       /\ waiting' = waiting (-) Parked("invoke", w.entry)
       /\ UNCHANGED <<now, derived, threads, instance, chat>>

\* The record of the call of generate_response that waited as entry and
\* ends as r.
Returned(entry, io, r) ==
  [entry EXCEPT
     !.ret = r.ret, !.raised = r.raised, !.message = r.message,
     !.retrievals = r.retrievals, !.generations = r.generations,
     !.gets = r.gets, !.sets = r.sets, !.prompt = r.prompt,
     !.write = IF r.sets > 0 THEN io ELSE "none"]

\* What the lookup of a call that waits for the chain has returned: nothing,
\* over the records and the counters of now.
Missed == [ret |-> None, raised |-> "none", files |-> files, stats |-> stats]

\* The chain answers or fails the call w of generate_response: the call
\* goes on from its lookup, which found nothing to return, in the directory
\* and with the counters and the clock of now, and ends as r.
Ends(w, io, r) == Resumed(w, Returned(w.entry, io, r), r.files, r.stats)

Generated(w) ==
  /\ w.pc = "invoke"
  /\ w.entry.op = "generate_response"
  /\ \E llm \in LlmOutcomes :
     \E io \in IF llm.ok /\ w.entry.use_cache THEN IoOutcomes ELSE {"ok"} :
       Ends(w, io, _respond(now, w.entry.query, w.entry.context, w.entry.use_cache, llm, io, Missed))

\* A request of the service.
Request ==
  /\ calls + BagCardinality(waiting) < MaxRequests
  /\ GenerateResponse(ServiceQueries)

\* A first request of the service, with any query: no request has
\* returned.  A request that begins while others wait for the chain has
\* the query of one of them.
FirstRequest ==
  /\ calls = 0
  /\ GenerateResponse(IF waiting = EmptyBag THEN ValidationQueries ELSE {w.entry.query : w \in BagToSet(waiting)})

\* The record of a call of get that ended as r.
Got(query, context, before, r) ==
  Called([NoCall EXCEPT !.op = "get", !.query = query, !.context = context,
            !.ret = r.ret, !.raised = r.raised, !.gets = 1,
            !.before = before],
         r.files, r.stats)

Get ==
  /\ calls < MaxCalls
  /\ \E query \in CacheQueries, context \in Contexts :
       Got(query, context, Stored(files, query, context),
           get(files, stats, now, query, context))

\* The entries handed to set.
Entry(query, context, answer, t) ==
  Dict(<< <<"answer", Str(answer)>>, <<"context", context>>,
          <<"timestamp", Str(IsoText[t])>>, <<"query", Str(query)>>,
          <<"cached", Bool(FALSE)>> >>)

\* A call of set with the entry response, and its record.
Put(query, context, response, io, before) ==
  Called([NoCall EXCEPT !.op = "set", !.query = query, !.context = context,
            !.ret = response, !.sets = 1, !.write = io, !.before = before],
         set(files, stats, query, context, response, io).files,
         set(files, stats, query, context, response, io).stats)

Set ==
  /\ calls < MaxCalls
  /\ \E query \in CacheQueries, context \in Contexts, answer \in Answers,
        io \in IoOutcomes :
       Put(query, context, Entry(query, context, answer, now), io,
           Stored(files, query, context))

ClearExpired ==
  /\ calls < MaxCalls
  /\ LET r == clear_expired(files, stats, now)
     IN Called([NoCall EXCEPT !.op = "clear_expired",
                  !.message = ToString(r.cleared_count)],
               r.files, r.stats)

GetStats ==
  /\ calls < MaxCalls
  /\ Called([NoCall EXCEPT !.op = "get_stats"], files, stats)

\* Time passes between the calls.
Tick ==
  /\ calls < MaxCalls
  /\ now < MaxTime
  /\ now' = now + 1
  /\ UNCHANGED <<files, stats, calls, last, derived, threads, waiting, instance, chat>>

\* Texts a damaged record can hold: a truncated document, a document
\* without timestamp, a document whose timestamp is not a date, and a
\* document that is a list.
CorruptTexts ==
  { <<"text", "{\"answer\": ">>,
    json_dump(Dict(<< <<"answer", Str("A1")>> >>)),
    json_dump(Dict(<< <<"answer", Str("A1")>>, <<"timestamp", Str("yesterday")>> >>)),
    json_dump(List(<<>>)) }

\* A stored entry is damaged from outside the program, between the calls:
\* the text under key becomes text.
Damaged(key, text) ==
  /\ calls < MaxCalls
  /\ files' = WriteFile(files, key, text)
  /\ UNCHANGED <<stats, now, calls, last, derived, threads, waiting, instance, chat>>

\* The damage a request can meet in the record of text, one text of each
\* kind: a text that get deletes, a text that makes get raise, and a text
\* that get serves: the entry without its answer.
ServiceCorruptTexts(text) ==
  {PartialText, json_dump(List(<<>>)), json_dump(Dict(SelectSeq(Payload(json_load(text)), LAMBDA item : item[1] # "answer")))}

\* The service: requests, the passing of time, damage to the records.
Next ==
  \/ Request
  \/ \E w \in BagToSet(waiting) : Generated(w)
  \/ Tick
  \/ \E key \in {k \in DOMAIN files : Sweep(files[k], now) # "error"} : \E text \in ServiceCorruptTexts(files[key]) : Damaged(key, text)

Spec == Init /\ [][Next]_vars

\* The operations of the cache store, called directly.
NextCache ==
  \/ Get
  \/ Set
  \/ ClearExpired
  \/ GetStats
  \/ Tick
  \/ \E key \in {k \in DOMAIN files : Sweep(files[k], now) # "error"} : \E text \in CorruptTexts : Damaged(key, text)

SpecCache == Init /\ [][NextCache]_vars

(***************************************************************************)
(* A new ResponseCache on the same directory, as after a restart of the    *)
(* process: __init__ sets the counters to zero and _ensure_cache_dir       *)
(* leaves an existing directory as it is.  st are the counters of the      *)
(* instance it replaces, which the new instance does not see.              *)
(***************************************************************************)
\* A constructor that empties the directory.
ResponseCache_empties_directory(fs, st) == [files |-> NoFiles, stats |-> ZeroStats]

ResponseCache(fs, st) == [files |-> fs, stats |-> ZeroStats]

Restart ==
  /\ calls < MaxCalls
  /\ calls' = calls + 1
  /\ last' = [NoCall EXCEPT !.op = "__init__"]
  /\ files' = ResponseCache(files, stats).files
  /\ stats' = ResponseCache(files, stats).stats
  /\ instance' = instance + 1
  /\ UNCHANGED <<now, derived, threads, waiting, chat>>

\* The cache store over restarts of the process.
NextRestart ==
  \/ Get
  \/ Set
  \/ Tick
  \/ Restart

SpecRestart == Init /\ [][NextRestart]_vars

(***************************************************************************)
(* The service over a directory an earlier instance of the process left:   *)
(* one entry of the query "abc", written at instant 0 or 1 and found at    *)
(* instant MaxTime, when the first is expired and the second is not.  The  *)
(* clock runs on beyond the ttl of an entry written at MaxTime.            *)
(***************************************************************************)
InitHeal ==
  /\ \E context \in Contexts, t \in {0, 1} :
       files = WriteFile(NoFiles, CacheKey("abc", context), json_dump(Entry("abc", context, "A1", t)))
  /\ stats = ZeroStats
  /\ now = MaxTime
  /\ calls = 0
  /\ last = NoCall
  /\ derived = <<>>
  /\ threads = [th \in Threads |-> Idle]
  /\ waiting = EmptyBag
  /\ instance = 1
  /\ chat = <<>>

Later ==
  /\ now < 2 * MaxTime
  /\ now' = now + 1
  /\ UNCHANGED <<files, stats, calls, last, derived, threads, waiting, instance, chat>>

NextHeal ==
  \/ Request
  \/ \E w \in BagToSet(waiting) : Generated(w)
  \/ Later

SpecHeal == InitHeal /\ [][NextHeal]_vars

\* Requests with any query on the fresh store, begun before one has
\* returned.
NextValidate ==
  \/ FirstRequest
  \/ \E w \in BagToSet(waiting) : Generated(w)

SpecValidate == Init /\ [][NextValidate]_vars

\* Key derivation: the key is derived from any inputs, and a second time
\* from the same query and any passage list.
Derive ==
  /\ Len(derived) < 2
  /\ \E query \in KeyQueries, context \in KeyContexts :
       /\ Len(derived) = 1 => query = derived[1].query
       /\ derived' = Append(derived, [query |-> query, context |-> context,
                                   key |-> CacheKey(query, context)])
  /\ UNCHANGED <<files, stats, now, calls, last, threads, waiting, instance, chat>>

SpecKey == Init /\ [][Derive]_vars

(***************************************************************************)
(* Calls of get and set that run at the same time on one ResponseCache,   *)
(* all for the same query and passages.  A call advances one file          *)
(* operation or one counter access at a time: exists(), open() and read,   *)
(* unlink(), the load and the store of stats[...] += 1; set's open('w')    *)
(* truncates the file, and the text reaches the file when the file is     *)
(* closed: the entries of the calls are shorter than the 8192 bytes the    *)
(* file object buffers, so json.dump's text is written in one write, at    *)
(* position 0, at the end of the with block.  Each set writes through its  *)
(* own file object: the write replaces the characters at the beginning of  *)
(* the file and leaves those behind its text.                              *)
(***************************************************************************)
RaceQuery == "abc"
RaceContext == List(<<P0>>)
RaceKey == CacheKey(RaceQuery, RaceContext)

\* The characters json.dump(v, f, ensure_ascii=False, indent=2) writes, v
\* being nested depth levels deep.
RECURSIVE json_dump_indent(_, _)
json_dump_indent(v, depth) ==
  LET inner == "\n" \o Join([i \in 1..(2 * depth + 2) |-> " "], "")
      outer == "\n" \o Join([i \in 1..(2 * depth) |-> " "], "")
  IN CASE TypeOf(v) = "str" -> "\"" \o Escape(Payload(v)) \o "\""
       [] TypeOf(v) = "float" -> Payload(v)
       [] TypeOf(v) = "bool" -> IF Payload(v) THEN "true" ELSE "false"
       [] TypeOf(v) = "NoneType" -> "null"
       [] TypeOf(v) = "list" ->
            IF Payload(v) = <<>> THEN "[]"
            ELSE "[" \o inner
                   \o Join([i \in 1..Len(Payload(v)) |->
                             json_dump_indent(Payload(v)[i], depth + 1)], "," \o inner)
                   \o outer \o "]"
       [] TypeOf(v) = "dict" ->
            IF Payload(v) = <<>> THEN "{}"
            ELSE "{" \o inner
                   \o Join([i \in 1..Len(Payload(v)) |->
                             "\"" \o Escape(Payload(v)[i][1]) \o "\": "
                               \o json_dump_indent(Payload(v)[i][2], depth + 1)], "," \o inner)
                   \o outer \o "}"

\* json.load of a file of the characters raw: the text is a JSON document
\* when the characters are those of a value, which for the files of the
\* calls is a value a damaged record holds or an entry for the query and
\* the passages of the calls, whose answer stands behind the first key up
\* to the next quote.
Loaded(raw) ==
  LET first == Len("{\n  \"answer\": \"")
      quotes == {i \in (first + 1)..Len(raw) : CharAt(raw, i) = "\""}
      answers == {SubSeq(raw, first + 1, i - 1) : i \in {j \in quotes : \A k \in quotes : j <= k}}
      values == {Entry(RaceQuery, RaceContext, a, t) :
                   a \in answers, t \in {0, now}}
                  \cup {json_load(c) : c \in {x \in CorruptTexts : IsJson(x)}}
      read == {v \in values : json_dump_indent(v, 0) = raw}
  IN IF read = {} THEN <<"text", raw>> ELSE json_dump(CHOOSE v \in read : TRUE)

\* The write of part at position 0 of a file of the characters raw.
Overwritten(raw, part) == part \o SubSeq(raw, Len(part) + 1, Len(raw))

\* What the directory can hold when the calls begin: nothing, an entry
\* written at instant 0, or a damaged record.
InitRace ==
  /\ files \in {NoFiles} \cup
                {[k \in {RaceKey} |-> text] :
                   text \in {json_dump(Entry(RaceQuery, RaceContext, "A1", 0))} \cup CorruptTexts}
  /\ stats = ZeroStats
  /\ now \in {0, MaxTime}
  /\ calls = 0
  /\ last = NoCall
  /\ derived = <<>>
  /\ threads = [th \in Threads |-> Idle]
  /\ waiting = EmptyBag
  /\ instance = 1
  /\ chat = <<>>

\* Thread th moves on as rec.
Step(th, rec) == threads' = [threads EXCEPT ![th] = rec]

\* The call of th ends with exception e.
Raises(th, e) == Step(th, [threads[th] EXCEPT !.pc = "done", !.raised = e])

StartGet(th) ==
  /\ threads[th].pc = "idle"
  /\ Step(th, [Idle EXCEPT !.op = "get", !.pc = "exists"])
  /\ UNCHANGED <<files, stats, now, calls, last, derived, instance, chat, waiting>>

StartSet(th) ==
  /\ threads[th].pc = "idle"
  /\ \E answer \in Answers \cup {"A10"} :
       Step(th, [Idle EXCEPT !.op = "set", !.pc = "open",
                             !.entry = Entry(RaceQuery, RaceContext, answer, now)])
  /\ UNCHANGED <<files, stats, now, calls, last, derived, instance, chat, waiting>>

\* if not cache_path.exists()
GetExists(th) ==
  /\ threads[th].pc = "exists"
  /\ IF RaceKey \in DOMAIN files
     THEN Step(th, [threads[th] EXCEPT !.pc = "read"])
     ELSE Step(th, [threads[th] EXCEPT !.pc = "load", !.counter = "misses", !.ret = None])
  /\ UNCHANGED <<files, stats, now, calls, last, derived, instance, chat, waiting>>

\* What the call does with the text it read: r is what get makes of a
\* directory that holds this text alone.
Judged(th, text, r) ==
  IF r.raised # "none"
  THEN Step(th, [threads[th] EXCEPT !.pc = "done", !.text = text, !.raised = r.raised])
  ELSE IF r.stats.errors = 1
  THEN Step(th, [threads[th] EXCEPT !.pc = "unlink", !.text = text, !.counter = "errors"])
  ELSE IF r.stats.expired = 1
  THEN Step(th, [threads[th] EXCEPT !.pc = "unlink", !.text = text, !.counter = "expired"])
  ELSE Step(th, [threads[th] EXCEPT !.pc = "load", !.text = text, !.counter = "hits", !.ret = r.ret])

\* cache_path.open('r') and json.load(f); open raises FileNotFoundError,
\* which get does not catch, when the file is gone.
GetRead(th) ==
  /\ threads[th].pc = "read"
  /\ IF RaceKey \in DOMAIN files
     THEN Judged(th, files[RaceKey],
                 _read([k \in {RaceKey} |-> files[RaceKey]], ZeroStats, now, RaceKey))
     ELSE Raises(th, "FileNotFoundError")
  /\ UNCHANGED <<files, stats, now, calls, last, derived, instance, chat, waiting>>

\* The threads after the file was unlinked: a set that has it open writes
\* to a file without a name from now on.
Orphaned(th, rec) ==
  [t \in Threads |->
     IF t = th THEN rec
     ELSE IF threads[t].fd = "open" THEN [threads[t] EXCEPT !.fd = "orphan"]
     ELSE threads[t]]

\* cache_path.unlink() of an expired record, which raises when the file is
\* gone, and cache_path.unlink(missing_ok=True) of a corrupted one.
GetUnlink(th) ==
  /\ threads[th].pc = "unlink"
  /\ IF RaceKey \in DOMAIN files
     THEN /\ files' = Unlink(files, RaceKey)
          /\ threads' = Orphaned(th, [threads[th] EXCEPT !.pc = "load"])
     ELSE /\ files' = files
          /\ IF threads[th].counter = "expired"
             THEN Raises(th, "FileNotFoundError")
             ELSE Step(th, [threads[th] EXCEPT !.pc = "load"])
  /\ UNCHANGED <<stats, now, calls, last, derived, instance, chat, waiting>>

\* self.stats[counter] += 1: the value is loaded, then stored one higher.
GetLoad(th) ==
  /\ threads[th].pc = "load"
  /\ Step(th, [threads[th] EXCEPT !.pc = "store", !.seen = stats[threads[th].counter]])
  /\ UNCHANGED <<files, stats, now, calls, last, derived, instance, chat, waiting>>

GetStore(th) ==
  /\ threads[th].pc = "store"
  /\ stats' = [stats EXCEPT ![threads[th].counter] = threads[th].seen + 1]
  /\ Step(th, [threads[th] EXCEPT !.pc = "done"])
  /\ UNCHANGED <<files, now, calls, last, derived, instance, chat, waiting>>

\* cache_path.open('w'): the file is created or truncated.
SetOpen(th) ==
  /\ threads[th].pc = "open"
  /\ files' = WriteFile(files, RaceKey, <<"text", "">>)
  /\ Step(th, [threads[th] EXCEPT !.pc = "write", !.fd = "open", !.old = TextAt(files, RaceKey)])
  /\ UNCHANGED <<stats, now, calls, last, derived, instance, chat, waiting>>

\* The directory as th leaves it when it writes part: a file that was
\* unlinked is written to without a name.
Written(th, part) ==
  IF threads[th].fd = "open"
  THEN WriteFile(files, RaceKey,
                 Loaded(Overwritten(IF IsJson(files[RaceKey])
                                    THEN json_dump_indent(json_load(files[RaceKey]), 0)
                                    ELSE files[RaceKey][2],
                                    part)))
  ELSE files

\* json.dump and the end of the with block: the text is written.
SetClose(th) ==
  /\ threads[th].pc = "write"
  /\ files' = Written(th, json_dump_indent(threads[th].entry, 0))
  /\ Step(th, [threads[th] EXCEPT !.pc = "done", !.fd = "none"])
  /\ UNCHANGED <<stats, now, calls, last, derived, instance, chat, waiting>>

NextRace ==
  \E th \in Threads :
    \/ StartGet(th)
    \/ StartSet(th)
    \/ GetExists(th)
    \/ GetRead(th)
    \/ GetUnlink(th)
    \/ GetLoad(th)
    \/ GetStore(th)
    \/ SetOpen(th)
    \/ SetClose(th)

SpecRace == InitRace /\ [][NextRace]_vars

(***************************************************************************)
(* Calls of get and clear_expired that run at the same time on a record    *)
(* that is expired or corrupted when they begin.  clear_expired advances   *)
(* like get: the listing of the directory, open() and read, the unlink()   *)
(* of the try block, the unlink() of the except block, the load and the    *)
(* store of the counter.                                                   *)
(***************************************************************************)
\* The record when the calls begin: an entry older than the TTL, or a
\* damaged text that a get alone removes and counts as an error.
InitDoomed ==
  /\ files \in {[k \in {RaceKey} |-> text] :
                text \in {json_dump(Entry(RaceQuery, RaceContext, "A1", 0))} \cup
                         {text \in CorruptTexts : _read([k \in {RaceKey} |-> text], ZeroStats, MaxTime, RaceKey).raised = "none"}}
  /\ stats = ZeroStats
  /\ now = MaxTime
  /\ calls = 0
  /\ last = NoCall
  /\ derived = <<>>
  /\ threads = [th \in Threads |-> Idle]
  /\ waiting = EmptyBag
  /\ instance = 1
  /\ chat = <<>>

StartClear(th) ==
  /\ threads[th].pc = "idle"
  /\ Step(th, [Idle EXCEPT !.op = "clear_expired", !.pc = "glob", !.ret = Integer(0)])
  /\ UNCHANGED <<files, stats, now, calls, last, derived, instance, chat, waiting>>

\* for cache_file in self.cache_dir.glob("*.json"): the directory is
\* listed; with no file in it the loop is over and 0 is returned.
ClearGlob(th) ==
  /\ threads[th].pc = "glob"
  /\ IF RaceKey \in DOMAIN files
     THEN Step(th, [threads[th] EXCEPT !.pc = "sweep"])
     ELSE Step(th, [threads[th] EXCEPT !.pc = "done"])
  /\ UNCHANGED <<files, stats, now, calls, last, derived, instance, chat, waiting>>

\* cache_file.open('r'), json.load(f) and the test of the age; open raises
\* FileNotFoundError inside the try block when the file is gone.
ClearRead(th) ==
  /\ threads[th].pc = "sweep"
  /\ IF RaceKey \in DOMAIN files
     THEN Step(th, [threads[th] EXCEPT !.text = files[RaceKey],
                      !.pc = CASE Sweep(files[RaceKey], now) = "error" -> "except"
                               [] Sweep(files[RaceKey], now) = "expired" -> "remove"
                               [] OTHER -> "done"])
     ELSE Step(th, [threads[th] EXCEPT !.pc = "except"])
  /\ UNCHANGED <<files, stats, now, calls, last, derived, instance, chat, waiting>>

\* cache_file.unlink() of an expired record, inside the try block: when
\* the file is gone it raises and the except block takes over.
ClearUnlink(th) ==
  /\ threads[th].pc = "remove"
  /\ IF RaceKey \in DOMAIN files
     THEN /\ files' = Unlink(files, RaceKey)
          /\ threads' = Orphaned(th, [threads[th] EXCEPT !.pc = "load", !.counter = "expired", !.ret = Integer(1)])
     ELSE /\ files' = files
          /\ Step(th, [threads[th] EXCEPT !.pc = "except"])
  /\ UNCHANGED <<stats, now, calls, last, derived, instance, chat, waiting>>

\* cache_file.unlink() of the except block: when the file is gone it
\* raises FileNotFoundError out of clear_expired.
ClearExcept(th) ==
  /\ threads[th].pc = "except"
  /\ IF RaceKey \in DOMAIN files
     THEN /\ files' = Unlink(files, RaceKey)
          /\ threads' = Orphaned(th, [threads[th] EXCEPT !.pc = "load", !.counter = "errors", !.ret = Integer(1)])
     ELSE /\ files' = files
          /\ Raises(th, "FileNotFoundError")
  /\ UNCHANGED <<stats, now, calls, last, derived, instance, chat, waiting>>

NextDoomed ==
  \E th \in Threads :
    \/ StartGet(th)
    \/ GetExists(th)
    \/ GetRead(th)
    \/ GetUnlink(th)
    \/ StartClear(th)
    \/ ClearGlob(th)
    \/ ClearRead(th)
    \/ ClearUnlink(th)
    \/ ClearExcept(th)
    \/ GetLoad(th)
    \/ GetStore(th)

SpecDoomed == InitDoomed /\ [][NextDoomed]_vars

(***************************************************************************)
(* The chat delivery (bot_service.py).  firestore lists the outcomes of    *)
(* the calls of messages_ref.add in the order they are made: TRUE when the *)
(* message is added, FALSE when the call raises.                           *)
(***************************************************************************)
HELP_CHANNEL_ID == "help"
Channels == {HELP_CHANNEL_ID, "general"}

Thinking == "_Thinking..._"
Apology == "Sorry, I encountered an error processing your request. Please try again later."

is_help_channel(channel_id) == channel_id = HELP_CHANNEL_ID

\* send_bot_message: what it returns or raises, and the messages it added.
send_bot_message(content, channel_id, added) ==
  IF ~is_help_channel(channel_id)
  THEN [ret |-> FALSE, raised |-> "none", sent |-> <<>>]
  ELSE IF added
  THEN [ret |-> TRUE, raised |-> "none", sent |-> <<content>>]
  ELSE [ret |-> FALSE, raised |-> "Exception", sent |-> <<>>]

\* The except branch of handle_query_response: the apology is sent after the
\* messages in sent, and its failure leaves the function.
_apologise(channel_id, sent, apology) ==
  [raised |-> apology.raised, sent |-> sent \o apology.sent]

\* The call after the typing indicator was sent as first.
_answer(response, channel_id, firestore, first) ==
  IF first.raised # "none"
  THEN _apologise(channel_id, <<>>,
                  send_bot_message(Apology, channel_id, firestore[2]))
  ELSE IF send_bot_message(response, channel_id, firestore[2]).raised # "none"
  THEN _apologise(channel_id, first.sent,
                  send_bot_message(Apology, channel_id, firestore[3]))
  ELSE [raised |-> "none", sent |-> first.sent \o <<response>>]

\* A delivery that does not look at the channel.
handle_query_response_any_channel(query, response, channel_id, firestore) ==
  [raised |-> "none", sent |-> <<Thinking, response>>]

handle_query_response(query, response, channel_id, firestore) ==
  IF ~is_help_channel(channel_id) THEN [raised |-> "none", sent |-> <<>>]
  ELSE _answer(response, channel_id, firestore,
               send_bot_message(Thinking, channel_id, firestore[1]))

\* The outcomes of the writes to the chat storage a delivery can meet: the
\* first and the second write, and the third when the second has failed.
FirestoreOutcomes ==
  {<<TRUE, TRUE, TRUE>>, <<FALSE, TRUE, TRUE>>, <<FALSE, FALSE, TRUE>>,
   <<TRUE, FALSE, TRUE>>, <<TRUE, FALSE, FALSE>>}

(***************************************************************************)
(* The endpoint POST /query (api.py).  The reply is the status, the detail *)
(* of an HTTPException or the body that is returned, together with what    *)
(* generate_response did (r) and the messages the delivery added.          *)
(***************************************************************************)
ChannelDetail == "Bot responses are only available in the help channel"

NoDelivery == [raised |-> "none", sent |-> <<>>]

\* The reply of the endpoint.
Reply(status, detail, r, deliveries, delivery) ==
  [status |-> status, detail |-> detail, body |-> r.ret, r |-> r,
   deliveries |-> deliveries, sent |-> delivery.sent]

\* A delivery whose exception reaches the except Exception clause of the
\* endpoint.
_send_unguarded(request, r, firestore) ==
  IF ~request.send_to_chat THEN Reply(200, "", r, 0, NoDelivery)
  ELSE IF ~HasKey(r.ret, "answer")
  THEN Reply(500, "KeyError", [r EXCEPT !.ret = None], 0, NoDelivery)
  ELSE IF handle_query_response(request.query, Payload(Lookup(r.ret, "answer")),
                                request.channel_id, firestore).raised # "none"
  THEN Reply(500, "Exception", [r EXCEPT !.ret = None], 1,
             handle_query_response(request.query,
                                   Payload(Lookup(r.ret, "answer")),
                                   request.channel_id, firestore))
  ELSE Reply(200, "", r, 1,
             handle_query_response(request.query,
                                   Payload(Lookup(r.ret, "answer")),
                                   request.channel_id, firestore))

\* "If requested, send the response to chat": an exception of the delivery,
\* or of response['answer'], is caught and the response is returned.
_send(request, r, firestore) ==
  IF ~request.send_to_chat THEN Reply(200, "", r, 0, NoDelivery)
  ELSE IF ~HasKey(r.ret, "answer") THEN Reply(200, "", r, 0, NoDelivery)
  ELSE Reply(200, "", r, 1,
             handle_query_response(request.query,
                                   Payload(Lookup(r.ret, "answer")),
                                   request.channel_id, firestore))

\* The endpoint after generate_response ended as r: except Exception turns
\* every error of generate_response into status 500.
_responded(request, r, firestore) ==
  IF r.raised # "none"
  THEN Reply(500, r.message, [r EXCEPT !.ret = None], 0, NoDelivery)
  ELSE _send(request, r, firestore)

\* An endpoint that calls generate_response before it looks at the channel.
post_query_checks_late(fs, st, request, r, firestore) ==
  IF request.send_to_chat /\ request.channel_id # HELP_CHANNEL_ID
  THEN Reply(400, ChannelDetail, [r EXCEPT !.ret = None], 0, NoDelivery)
  ELSE _responded(request, r, firestore)

\* async def query(request: QueryRequest): r is what generate_response
\* returns or raises when the request calls it.
post_query(fs, st, request, r, firestore) ==
  IF request.send_to_chat /\ request.channel_id # HELP_CHANNEL_ID
  THEN Reply(400, ChannelDetail,
             [ret |-> None, raised |-> "none", message |-> "",
              retrievals |-> 0, generations |-> 0, gets |-> 0, sets |-> 0,
              prompt |-> NoPrompt, files |-> fs, stats |-> st],
             0, NoDelivery)
  ELSE _responded(request, r, firestore)

\* The record of a request of the endpoint that is answered by reply.
Answered(request, search, llm, io, firestore, before, reply) ==
  [NoCall EXCEPT !.op = "query", !.query = request.query,
     !.context = search.results, !.use_cache = request.use_cache,
     !.ret = reply.body, !.raised = reply.r.raised,
     !.message = reply.r.message,
     !.retrievals = reply.r.retrievals,
     !.generations = reply.r.generations,
     !.gets = reply.r.gets, !.sets = reply.r.sets,
     !.prompt = reply.r.prompt,
     !.write = IF reply.r.sets > 0 THEN io ELSE "none",
     !.before = before,
     !.send_to_chat = request.send_to_chat,
     !.channel_id = request.channel_id,
     !.search_ok = search.ok, !.llm = llm, !.firestore = firestore,
     !.status = reply.status, !.detail = reply.detail,
     !.deliveries = reply.deliveries, !.sent = reply.sent]

\* What the similarity search returns for the requests of the endpoint.
\* The outcomes of the collaborators are enumerated only in the requests
\* that reach them: probe is the reply when every collaborator succeeds.
SearchReached(request) ==
  IF post_query(files, stats, request,
                generate_response(files, stats, now, request.query, [ok |-> FALSE, results |-> None], request.use_cache, [ok |-> FALSE, text |-> ""], "ok"),
                <<>>).r.retrievals > 0
  THEN {[ok |-> TRUE, results |-> List(<<P0>>)], [ok |-> FALSE, results |-> None]}
  ELSE {[ok |-> FALSE, results |-> None]}
Probe(request, search) ==
  post_query(files, stats, request,
             generate_response(files, stats, now, request.query, search, request.use_cache, [ok |-> TRUE, text |-> "A1"], "ok"),
             <<TRUE, TRUE, TRUE>>)

\* The record of a request that is past generate_response; reply is its
\* reply when every add of the delivery succeeds.  A request that calls the
\* delivery has no reply yet.
Unsent(request, search, llm, io, before, reply) ==
  Answered(request, search, llm, io, <<>>, before,
           IF reply.deliveries > 0 THEN Reply(0, "", reply.r, 1, NoDelivery) ELSE reply)

\* A request that does not reach the chain is answered by its reply, at
\* once or behind the waits of its delivery.
Direct(request, search, before, reply) ==
  Settled(Unsent(request, search, [ok |-> FALSE, text |-> ""], "ok", before, reply), reply.r.files, reply.r.stats)

\* A request of the endpoint begins: it goes up to its reply or up to the
\* first wait of its delivery when it does not reach the chain, and up to
\* the wait in chain.invoke when it does.
Asks(request, search, probe) ==
  IF probe.r.generations > 0
  THEN Invokes([NoCall EXCEPT !.op = "query", !.query = request.query,
                  !.context = search.results, !.use_cache = request.use_cache,
                  !.retrievals = probe.r.retrievals, !.gets = probe.r.gets,
                  !.before = Stored(files, request.query, search.results),
                  !.send_to_chat = request.send_to_chat,
                  !.channel_id = request.channel_id,
                  !.search_ok = search.ok],
               cache_lookup(files, stats, now, request.query, search.results, request.use_cache))
  ELSE Direct(request, search,
              IF search.ok THEN Stored(files, request.query, search.results) ELSE Absent,
              post_query(files, stats, request,
                         generate_response(files, stats, now, request.query, search, request.use_cache, [ok |-> FALSE, text |-> ""], "ok"),
                         <<TRUE, TRUE, TRUE>>))

\* The requests of the endpoint: one without send_to_chat, which never
\* looks at its channel, names the default channel.
Query ==
  /\ calls + BagCardinality(waiting) < MaxQueries
  /\ \E request \in {q \in [query : ServiceQueries, use_cache : BOOLEAN, send_to_chat : BOOLEAN, channel_id : Channels] :
                        q.send_to_chat \/ q.channel_id = HELP_CHANNEL_ID} :
     \E search \in SearchReached(request) :
       Asks(request, search, Probe(request, search))

\* The request that waits as entry.
Asked(entry) ==
  [query |-> entry.query, use_cache |-> entry.use_cache,
   send_to_chat |-> entry.send_to_chat, channel_id |-> entry.channel_id]

\* The request w, which waited in chain.invoke, is answered by its reply,
\* at once or behind the waits of its delivery.
Replied(w, llm, io, reply) ==
  Resumed(w, Unsent(Asked(w.entry), [ok |-> TRUE, results |-> w.entry.context], llm, io, w.entry.before, reply), reply.r.files, reply.r.stats)

\* The chain answers or fails the request w of the endpoint: the request
\* goes on from its lookup, which found nothing to return, in the directory
\* and with the counters and the clock of now.
Responds(w) ==
  /\ w.pc = "invoke"
  /\ w.entry.op = "query"
  /\ \E llm \in LlmOutcomes :
     \E io \in IF llm.ok /\ w.entry.use_cache THEN IoOutcomes ELSE {"ok"} :
       Replied(w, llm, io,
               post_query(files, stats, Asked(w.entry),
                          _respond(now, w.entry.query, w.entry.context, w.entry.use_cache, llm, io, Missed),
                          <<TRUE, TRUE, TRUE>>))

\* The call entry when the adds of its delivery end as firestore: the
\* request of the endpoint is answered, and the call of
\* handle_query_response returns or raises.
Ended(entry, firestore) ==
  IF entry.op = "query"
  THEN Answered(Asked(entry), [ok |-> entry.search_ok, results |-> entry.context],
                entry.llm, entry.write, firestore, entry.before,
                post_query(files, stats, Asked(entry),
                           [ret |-> entry.ret, raised |-> entry.raised, message |-> entry.message,
                            retrievals |-> entry.retrievals, generations |-> entry.generations,
                            gets |-> entry.gets, sets |-> entry.sets, prompt |-> entry.prompt,
                            files |-> files, stats |-> stats],
                           firestore))
  ELSE [entry EXCEPT
          !.firestore = firestore,
          !.raised = handle_query_response(entry.query, entry.content, entry.channel_id, firestore).raised,
          !.sent = handle_query_response(entry.query, entry.content, entry.channel_id, firestore).sent]

\* The first messages_ref.add of the delivery of the call w is over.
Adds(w) ==
  /\ w.pc = "add"
  /\ \E firestore \in FirestoreOutcomes : Posts(w, firestore, Ended(w.entry, firestore))
  /\ UNCHANGED <<files, stats, now, derived, threads, instance>>

\* The wait of the call w behind the typing indicator is over: the answer
\* is added, or the apology when the add of the answer raises, unless its
\* add raises too, and the call returns.
Wakes(w) ==
  /\ w.pc = "sleep"
  /\ \E firestore \in {f \in FirestoreOutcomes : f[1]} : Leaves(w, Ended(w.entry, firestore), 1)
  /\ UNCHANGED <<files, stats, now, derived, threads, instance>>

\* The endpoint: requests that run at the same time meet when one of them
\* waits for the chain or in its delivery.
NextApi ==
  \/ Query
  \/ \E w \in BagToSet(waiting) : Responds(w)
  \/ \E w \in BagToSet(waiting) : Adds(w)
  \/ \E w \in BagToSet(waiting) : Wakes(w)

SpecApi == Init /\ [][NextApi]_vars

(***************************************************************************)
(* The delivery called directly, for any channel.                          *)
(***************************************************************************)
\* The record of a call of send_bot_message that ended as r.
Sent(content, channel_id, added, r) ==
  Called([NoCall EXCEPT !.op = "send_bot_message", !.content = content,
            !.channel_id = channel_id, !.firestore = added,
            !.ret = IF r.raised = "none" THEN Bool(r.ret) ELSE None,
            !.raised = r.raised, !.sent = r.sent],
         files, stats)

SendBotMessage ==
  /\ calls + BagCardinality(waiting) < MaxQueries
  /\ \E content \in {Thinking, Apology} \cup Answers, channel_id \in Channels :
     \E added \in IF is_help_channel(channel_id) THEN BOOLEAN ELSE {TRUE} :
       Sent(content, channel_id,
            IF is_help_channel(channel_id) THEN <<added>> ELSE <<>>,
            send_bot_message(content, channel_id, added))

\* A call of handle_query_response begins: for the help channel it waits
\* in its first messages_ref.add, for any other channel it is over.
HandleQueryResponse ==
  /\ calls + BagCardinality(waiting) < MaxQueries
  /\ \E query \in ServiceQueries, response \in Answers, channel_id \in Channels :
       Settled(IF is_help_channel(channel_id)
               THEN [NoCall EXCEPT !.op = "handle_query_response", !.query = query,
                       !.content = response, !.channel_id = channel_id, !.deliveries = 1]
               ELSE Ended([NoCall EXCEPT !.op = "handle_query_response", !.query = query,
                             !.content = response, !.channel_id = channel_id], <<>>),
               files, stats)

\* The contents generate_test_data.generate_message chooses from.
SAMPLE_MESSAGES ==
  { "Has anyone worked with the new React 18 features?",
    "I'm having trouble with async/await in Python. Any tips?",
    "Just deployed my first ML model to production!",
    "What's everyone's favorite programming language?",
    "Docker containers are amazing for development.",
    "Anyone here use VS Code? What extensions do you recommend?",
    "GraphQL vs REST - thoughts?",
    "Best practices for securing a Node.js application?",
    "Kubernetes is both awesome and complicated.",
    "How do you handle state management in your frontend apps?",
    "TDD has really improved my code quality.",
    "What's your go-to CI/CD pipeline setup?",
    "Microservices: love them or hate them?",
    "Anyone tried the new GPT-4 API?",
    "Best resources for learning system design?" }

\* generate_test_data.create_messages(1), run on the same chat storage:
\* it adds one of the sample messages to one of the channels general, tech
\* and random; an add that raises adds nothing, and the exception is caught.
CreateMessages ==
  /\ calls + BagCardinality(waiting) < MaxQueries
  /\ \E channel \in {"general", "tech", "random"}, content \in SAMPLE_MESSAGES, added \in BOOLEAN :
       /\ chat' = IF added THEN Append(chat, [channel_id |-> channel, content |-> content]) ELSE chat
       /\ last' = [NoCall EXCEPT !.op = "create_messages", !.channel_id = channel, !.content = content, !.firestore = <<added>>]
  /\ calls' = calls + 1
  /\ UNCHANGED <<files, stats, now, derived, threads, waiting, instance>>

\* The delivery, and the other writer of the chat storage.
NextChat ==
  \/ SendBotMessage
  \/ HandleQueryResponse
  \/ \E w \in BagToSet(waiting) : Adds(w)
  \/ \E w \in BagToSet(waiting) : Wakes(w)
  \/ CreateMessages

SpecChat == Init /\ [][NextChat]_vars

(***************************************************************************)
(* Vocabulary of the properties.                                           *)
(***************************************************************************)
\* The step is a call of op.
Calls(op) == calls' = calls + 1 /\ last'.op = op

\* The text deserializes into a cache entry: a JSON object with a timestamp
\* in ISO format.
IsEntry(text) ==
  /\ IsJson(text)
  /\ TypeOf(json_load(text)) = "dict"
  /\ HasKey(json_load(text), "timestamp")
  /\ TypeOf(Lookup(json_load(text), "timestamp")) = "str"
  /\ IsIsoFormat(Payload(Lookup(json_load(text), "timestamp")))

\* The instant an entry was created.
CreatedAt(text) == fromisoformat(Payload(Lookup(json_load(text), "timestamp")))

\* The entry as a hit returns it.
AsCached(text) == SetItem(json_load(text), "cached", Bool(TRUE))

(***************************************************************************)
(* Properties of key derivation, under SpecKey.                            *)
(***************************************************************************)
\* C1: two derivations of the cache key from the same query and from
\* passage lists that are equal by value (whatever the insertion order of
\* their dicts) yield the same key.
C1_KeyDeterministic ==
  (/\ Len(derived) = 2
   /\ derived[1].query = derived[2].query
   /\ PyEq(derived[1].context, derived[2].context))
  => derived[1].key = derived[2].key

\* Two derivations from lists that are equal by value but were built in
\* different insertion orders.
C1_Witness ==
  /\ Len(derived) = 2
  /\ derived[1].query = derived[2].query
  /\ PyEq(derived[1].context, derived[2].context)
  /\ derived[1].context # derived[2].context
  /\ Len(Payload(derived[1].context)) = 2
  /\ derived[1].key = derived[2].key

\* C2: for a fixed query, two passage lists that differ by value (in a
\* field of a passage, in the order or in the number of the passages) yield
\* different cache keys.
C2_KeySensitive ==
  (/\ Len(derived) = 2
   /\ derived[1].query = derived[2].query
   /\ ~PyEq(derived[1].context, derived[2].context))
  => derived[1].key # derived[2].key

\* Two derivations from the same two passages, which differ in their
\* message id alone, in opposite orders.
C2_Witness ==
  /\ Len(derived) = 2
  /\ derived[1].query = derived[2].query
  /\ derived[1].context = List(<<P0, P0_id>>)
  /\ derived[2].context = List(<<P0_id, P0>>)
  /\ derived[1].key # derived[2].key

(***************************************************************************)
(* Properties of the cache store, under SpecCache.                         *)
(***************************************************************************)
\* C3: a get for an entry created at T returns it as a hit when less than
\* ttl_hours have passed since T; when more than ttl_hours have passed it
\* returns None, deletes the record and increments expired.
C3_TtlCorrect ==
  [][(Calls("get") /\ IsEntry(last'.before)) =>
       LET age == now - CreatedAt(last'.before)
           key == CacheKey(last'.query, last'.context)
       IN /\ age < ttl_hours =>
               /\ last'.raised = "none"
               /\ last'.ret = AsCached(last'.before)
               /\ stats'.hits = stats.hits + 1
               /\ files' = files
          /\ age > ttl_hours =>
               /\ last'.raised = "none"
               /\ last'.ret = None
               /\ key \notin DOMAIN files'
               /\ stats'.expired = stats.expired + 1]_vars

\* A get has found an entry older than the ttl, after an earlier get was
\* a hit.
C3_Witness ==
  /\ last.op = "get"
  /\ IsEntry(last.before)
  /\ now - CreatedAt(last.before) > ttl_hours
  /\ last.ret = None
  /\ CacheKey(last.query, last.context) \notin DOMAIN files
  /\ stats.hits = 1
  /\ stats.expired = 1

\* C4: a get that finds a record which does not deserialize into an entry
\* deletes the record, increments errors by exactly 1 and returns None; it
\* raises nothing.
C4_SelfHealing ==
  [][(Calls("get") /\ last'.before # Absent /\ ~IsEntry(last'.before)) =>
       /\ last'.raised = "none"
       /\ last'.ret = None
       /\ CacheKey(last'.query, last'.context) \notin DOMAIN files'
       /\ stats' = [stats EXCEPT !.errors = @ + 1]]_vars

\* C10: a successful set leaves exactly its entry under the key, whatever
\* was stored there, and a get that follows it within the ttl returns that
\* entry and its answer.
C10_LastSetWins ==
  [][/\ (Calls("set") /\ last'.write = "ok") =>
          Stored(files', last'.query, last'.context) = json_dump(last'.ret)
     /\ (/\ Calls("get")
         /\ last.op = "set"
         /\ last.write = "ok"
         /\ last'.query = last.query
         /\ last'.context = last.context
         /\ last'.before \notin CorruptTexts
         /\ now - CreatedAt(json_dump(last.ret)) <= ttl_hours) =>
          /\ last'.raised = "none"
          /\ last'.ret = AsCached(json_dump(last.ret))
          /\ Lookup(last'.ret, "answer") = Lookup(last.ret, "answer")]_vars

\* A successful set has replaced an entry that held another answer.
C10_Witness ==
  /\ last.op = "set"
  /\ last.write = "ok"
  /\ IsEntry(last.before)
  /\ Lookup(json_load(last.before), "answer") # Lookup(last.ret, "answer")
  /\ Stored(files, last.query, last.context) = json_dump(last.ret)

(***************************************************************************)
(* Properties of the requests, under Spec and SpecValidate.                *)
(***************************************************************************)
\* The search of the call returned a passage list.
Retrieved(call) == call.retrievals = 1 /\ TypeOf(call.context) = "list"

\* The request w has looked up the cache in the step and waits in
\* chain.invoke; the request w, which waited in chain.invoke, returns in
\* the step; no call waits.
Waits(w) == w.pc = "invoke" /\ waiting' = waiting (+) SetToBag({w})
Resumes(w) == w.pc = "invoke" /\ waiting' = waiting (-) SetToBag({w})
Quiet == waiting = EmptyBag

\* The call w has begun in the step and waits in its delivery; the call w,
\* which waited in its delivery, returns in the step.
Sleeps(w) == w.pc = "sleep" /\ CopiesIn(w, waiting') = CopiesIn(w, waiting) + 1
Woken(w) == w.pc = "sleep" /\ waiting' = waiting (-) SetToBag({w})

\* The call began with use_cache over an unexpired entry for its query and
\* passages.
Fresh(call) ==
  /\ call.use_cache
  /\ Retrieved(call)
  /\ IsEntry(call.before)
  /\ now - CreatedAt(call.before) <= ttl_hours

\* C5: a request with use_cache whose retrieved passages have an unexpired
\* entry in the cache when it looks up calls the chain zero times, writes
\* nothing to the cache and returns the cached entry with cached = true: it
\* never waits for the chain and is over in the step of its lookup.
C5_NoGenerationOnHit ==
  [][/\ \A w \in BagToSet(waiting') : Waits(w) => ~Fresh(w.entry)
     /\ (Calls("generate_response") /\ Fresh(last')) =>
          /\ waiting' = waiting
          /\ last'.raised = "none"
          /\ last'.generations = 0
          /\ last'.sets = 0
          /\ last'.ret = AsCached(last'.before)
          /\ Lookup(last'.ret, "cached") = Bool(TRUE)
          /\ files' = files]_vars

\* A request was served from an entry of the cache.
C5_Witness ==
  /\ last.op = "generate_response"
  /\ last.use_cache
  /\ IsEntry(last.before)
  /\ last.ret = AsCached(last.before)
  /\ last.generations = 0
  /\ last.gets = 1

\* C6: a request without use_cache that has retrieved its passages calls
\* the chain exactly once, calls neither get nor set, leaves the records
\* and the counters unchanged in both of its steps (before the chain and
\* after it), and returns cached = false.
C6_CacheBypass ==
  [][/\ \A w \in BagToSet(waiting') :
          (Waits(w) /\ ~w.entry.use_cache) =>
            /\ w.entry.gets = 0
            /\ files' = files
            /\ stats' = stats
     /\ (Calls("generate_response") /\ ~last'.use_cache /\ Retrieved(last')) =>
          /\ \E w \in BagToSet(waiting) : Resumes(w)
          /\ last'.generations = 1
          /\ last'.gets = 0
          /\ last'.sets = 0
          /\ files' = files
          /\ stats' = stats
          /\ last'.raised = "none" => Lookup(last'.ret, "cached") = Bool(FALSE)]_vars

\* A request without use_cache was answered by the chain although an
\* unexpired entry for its query and passages is stored.
C6_Witness ==
  /\ last.op = "generate_response"
  /\ ~last.use_cache
  /\ last.raised = "none"
  /\ last.generations = 1
  /\ IsEntry(last.before)
  /\ now - CreatedAt(last.before) <= ttl_hours
  /\ Stored(files, last.query, last.context) = last.before
  /\ Lookup(last.ret, "cached") = Bool(FALSE)

\* The length of s without its leading and trailing blanks.
TrimmedLen(s) ==
  LET solid == {i \in 1..Len(s) : CharAt(s, i) # " "}
  IN IF solid = {} THEN 0
     ELSE (CHOOSE i \in solid : \A j \in solid : j <= i)
            - (CHOOSE i \in solid : \A j \in solid : i <= j) + 1

ValidationMessages ==
  {"Query must be a non-empty string", "Query must be at least 3 characters long"}

\* C7: a request whose query is empty or shorter than 3 characters after
\* trimming fails with the validation error before the search, the cache or
\* the chain is called; every other query passes validation and reaches the
\* search.
C7_ValidationBoundary ==
  last.op = "generate_response" =>
    IF last.query = "" \/ TrimmedLen(last.query) < 3
    THEN /\ last.raised = "QueryError"
         /\ last.message \in ValidationMessages
         /\ last.retrievals = 0
         /\ last.gets = 0
         /\ last.generations = 0
         /\ last.sets = 0
    ELSE /\ last.retrievals = 1
         /\ last.message \notin ValidationMessages

\* A query of four characters, two of them blanks, was rejected.
C7_Witness ==
  /\ last.op = "generate_response"
  /\ last.query = " aa "
  /\ last.raised = "QueryError"
  /\ last.retrievals = 0

\* The first request has stored the answer of the chain, and no other
\* request has begun.
FirstMiss ==
  /\ calls = 1
  /\ Quiet
  /\ last.op = "generate_response"
  /\ last.use_cache
  /\ last.raised = "none"
  /\ last.write = "ok"

\* The call is a request like the last, with use_cache, within the ttl of
\* the entry of the last and over a record that was not damaged.
Second(call) ==
  /\ call.use_cache
  /\ call.query = last.query
  /\ call.context = last.context
  /\ call.before \notin ServiceCorruptTexts(json_dump(last.ret))
  /\ now - CreatedAt(json_dump(last.ret)) <= ttl_hours

\* C8: on a fresh store the first request is a miss (one call of the chain,
\* counters 0/1/0/0, cached = false); an identical second request with the
\* same passages within the ttl, which begins when the first has returned,
\* is a hit (it does not wait for the chain and does not call it,
\* counters 1/1/0/0, cached = true) with the answer of the first.
C8_MissThenHit ==
  [][/\ FirstMiss =>
          /\ last.generations = 1
          /\ stats = [hits |-> 0, misses |-> 1, expired |-> 0, errors |-> 0]
          /\ Lookup(last.ret, "cached") = Bool(FALSE)
     /\ \A w \in BagToSet(waiting') : (FirstMiss /\ Waits(w)) => ~Second(w.entry)
     /\ (FirstMiss /\ Calls("generate_response") /\ Second(last')) =>
          /\ last'.raised = "none"
          /\ last'.generations = 0
          /\ stats' = [hits |-> 1, misses |-> 1, expired |-> 0, errors |-> 0]
          /\ Lookup(last'.ret, "cached") = Bool(TRUE)
          /\ Lookup(last'.ret, "answer") = Lookup(last.ret, "answer")]_vars

\* The second of two requests was a hit.
C8_Witness ==
  /\ calls = 2
  /\ last.op = "generate_response"
  /\ last.generations = 0
  /\ last.raised = "none"
  /\ Lookup(last.ret, "cached") = Bool(TRUE)
  /\ stats = [hits |-> 1, misses |-> 1, expired |-> 0, errors |-> 0]

\* The stored text is an entry for the query and, by value, the passages.
IsEntryFor(text, query, context) ==
  /\ IsEntry(text)
  /\ Lookup(json_load(text), "query") = Str(query)
  /\ PyEq(Lookup(json_load(text), "context"), context)

\* The records are entries, one of them for the query of the call with
\* other passages and none for its passages.
Changed(call) ==
  /\ \A k \in DOMAIN files :
       IsEntry(files[k]) /\ ~IsEntryFor(files[k], call.query, call.context)
  /\ \E k \in DOMAIN files, c \in Contexts : IsEntryFor(files[k], call.query, c)

\* C9: when the cache holds an entry for the query with other passages and
\* none for the passages retrieved now, a request with use_cache is a miss:
\* its lookup counts a miss and it waits for the chain, and a request that
\* has waited for the chain called it with its own passages and returns
\* them, and no entry of the cache.
C9_NoStaleAnswer ==
  [][/\ (Calls("generate_response") /\ last'.use_cache /\ Retrieved(last')
           /\ Changed(last')) => \E w \in BagToSet(waiting) : Resumes(w)
     /\ \A w \in BagToSet(waiting') :
          (Waits(w) /\ w.entry.use_cache /\ Changed(w.entry)) =>
            /\ stats'.misses = stats.misses + 1
            /\ stats'.hits = stats.hits
     /\ \A w \in BagToSet(waiting) :
          (Resumes(w) /\ last'.use_cache) =>
            /\ last'.generations = 1
            /\ last'.prompt = [context |-> Formatted[last'.context],
                               query |-> last'.query]
            /\ last'.raised = "none" =>
                 /\ Lookup(last'.ret, "context") = last'.context
                 /\ Lookup(last'.ret, "cached") = Bool(FALSE)
                 /\ \A k \in DOMAIN files :
                      IsEntry(files[k]) => last'.ret # AsCached(files[k])]_vars

\* A request missed and was answered by the chain while an entry for its
\* query with other passages stays stored.
C9_Witness ==
  /\ last.op = "generate_response"
  /\ last.use_cache
  /\ last.raised = "none"
  /\ last.generations = 1
  /\ last.before = Absent
  /\ Lookup(last.ret, "context") = last.context
  /\ \E k \in DOMAIN files, c \in Contexts :
       c # last.context /\ IsEntryFor(files[k], last.query, c)

\* C11: a request whose cache write fails still returns the response the
\* chain generated, with cached = false; set raises nothing, and the
\* step in which the request returns counts one error.
C11_SetFailureSwallowed ==
  [][(Calls("generate_response") /\ last'.sets = 1 /\ last'.write # "ok") =>
       /\ last'.raised = "none"
       /\ last'.generations = 1
       /\ Lookup(last'.ret, "cached") = Bool(FALSE)
       /\ Lookup(last'.ret, "context") = last'.context
       /\ Lookup(last'.ret, "query") = Str(last'.query)
       /\ stats' = Incr(stats, "errors")]_vars

\* A request was answered although the write of its entry was cut short.
C11_Witness ==
  /\ last.op = "generate_response"
  /\ last.sets = 1
  /\ last.write = "OSError in write"
  /\ last.raised = "none"
  /\ Lookup(last.ret, "cached") = Bool(FALSE)
  /\ Stored(files, last.query, last.context) = PartialText
  /\ stats = [hits |-> 0, misses |-> 1, expired |-> 0, errors |-> 1]

\* The stored text is an entry older than the ttl at instant t.
IsExpired(text, t) == IsEntry(text) /\ t - CreatedAt(text) > ttl_hours

\* C12: after clear_expired no record is older than the ttl or unparsable,
\* every unexpired parsable record is still stored unchanged, the returned
\* count is the number of records deleted, expired has grown by the number of
\* expired records and errors by the number of unparsable ones, and the
\* count is the sum of the two.
C12_ClearExpiredExact ==
  [][Calls("clear_expired") =>
       LET old == {k \in DOMAIN files : IsExpired(files[k], now)}
           bad == {k \in DOMAIN files : ~IsEntry(files[k])}
       IN /\ \A k \in DOMAIN files' :
               IsEntry(files'[k]) /\ ~IsExpired(files'[k], now)
          /\ DOMAIN files' = DOMAIN files \ (old \cup bad)
          /\ \A k \in DOMAIN files' : files'[k] = files[k]
          /\ last'.message = ToString(Cardinality(DOMAIN files \ DOMAIN files'))
          /\ last'.message = ToString((stats'.expired - stats.expired)
                                      + (stats'.errors - stats.errors))
          /\ stats' = [stats EXCEPT !.expired = @ + Cardinality(old),
                                    !.errors = @ + Cardinality(bad)]]_vars

\* A sweep has deleted two records, one expired and one unparsable.
C12_Witness ==
  /\ last.op = "clear_expired"
  /\ last.message = "2"
  /\ stats.expired = 1
  /\ stats.errors = 1
  /\ files = NoFiles

(***************************************************************************)
(* Properties of calls that run at the same time, under SpecRace.          *)
(***************************************************************************)
\* The set of thread s has the file open.
Writing(s) == threads[s].op = "set" /\ threads[s].fd # "none"

\* C13: a get that reads the file while a set on the same key has it open
\* reads the text stored before the set began or the entry the set writes,
\* never a part of it, so it never takes the record being written for a
\* corrupted one.
C13_NoTornRead ==
  [][\A g \in Threads :
       (/\ threads[g].pc = "read"
        /\ threads'[g].pc # "read"
        /\ \E s \in Threads : Writing(s)) =>
         \E s \in Threads :
           /\ Writing(s)
           /\ threads'[g].text \in {threads[s].old, json_dump(threads[s].entry)}]_vars

\* The counters add up to n.
Counted(n) == stats.hits + stats.misses + stats.expired + stats.errors = n

\* C14: when all calls are over, the four counters together have grown by
\* the number of gets that returned.
C14_NoLostUpdates ==
  (\A th \in Threads : threads[th].pc \in {"idle", "done"}) =>
    Counted(Cardinality({th \in Threads : /\ threads[th].op = "get"
                                          /\ threads[th].pc = "done"
                                          /\ threads[th].raised = "none"}))

\* C31: when two calls, one of them a get and the other a get or a
\* clear_expired, have run at the same time on one expired or corrupted
\* record and both are over, neither has raised an exception and the
\* removal of the record was counted once: expired and errors add up to 1.
C31_DoomedReadsSafe ==
  (/\ \A th \in Threads : threads[th].pc = "done"
   /\ \E th \in Threads : threads[th].op = "get") =>
    /\ \A th \in Threads : threads[th].raised = "none"
    /\ stats.expired + stats.errors = 1

(***************************************************************************)
(* Properties of the HTTP endpoint, under SpecApi, and of the errors of    *)
(* generate_response.                                                      *)
(***************************************************************************)
ClientError == 400..499
ServerError == 500..599

\* C15: a request whose query fails validation is answered with a client
\* error status, and a request that fails in the search, in the chain or
\* elsewhere with a server error status.
C15_StatusByFailure ==
  (last.op = "query" /\ last.raised # "none") =>
    IF last.message \in ValidationMessages
    THEN last.status \in ClientError
    ELSE last.status \in ServerError

\* The stage at which a call of generate_response failed.
Stage(call) ==
  IF call.retrievals = 0 THEN "validation"
  ELSE IF call.gets = 0 /\ call.generations = 0 THEN "retrieval"
  ELSE IF call.generations = 1 THEN "generation"
  ELSE "cache"

\* The call of generate_response failed in validation, in the search or in
\* the chain.
Failed(call) ==
  /\ call.op = "generate_response"
  /\ call.raised # "none"
  /\ Stage(call) # "cache"

\* C16: two requests that failed at different stages (validation,
\* retrieval, generation) raised errors of different kinds.
C16_DistinctKinds ==
  [][(Calls("generate_response") /\ Failed(last) /\ Failed(last')
        /\ Stage(last) # Stage(last')) =>
       last.raised # last'.raised]_vars

\* C17: a request with send_to_chat and a channel other than the help
\* channel is answered with status 400 in one step, and neither the search,
\* the cache, the chain nor the delivery is called or waited for: the
\* records, the counters and the chat storage are as before.
C17_ChannelRejectedFirst ==
  [][/\ \A w \in BagToSet(waiting') :
          Waits(w) => ~(/\ w.entry.send_to_chat
                         /\ w.entry.channel_id # HELP_CHANNEL_ID)
     /\ (Calls("query") /\ last'.send_to_chat
           /\ last'.channel_id # HELP_CHANNEL_ID) =>
       /\ waiting' = waiting
       /\ last'.status = 400
       /\ last'.ret = None
       /\ last'.retrievals = 0
       /\ last'.gets = 0
       /\ last'.sets = 0
       /\ last'.generations = 0
       /\ last'.deliveries = 0
       /\ last'.sent = <<>>
       /\ files' = files
       /\ stats' = stats]_vars

\* A request for another channel was rejected while the record that would
\* have answered it was stored.
C17_Witness ==
  /\ last.op = "query"
  /\ last.send_to_chat
  /\ last.channel_id = "general"
  /\ last.status = 400
  /\ last.query = "abc"
  /\ last.use_cache
  /\ \E context \in Contexts : IsEntry(Stored(files, "abc", context))

\* What generate_response returns to the request of call when it is over
\* in one step, and when it has waited for the chain.
Through(call) ==
  generate_response(files, stats, now, call.query,
                    [ok |-> call.search_ok, results |-> call.context],
                    call.use_cache, call.llm,
                    IF call.write = "none" THEN "ok" ELSE call.write)
Afterwards(call) ==
  _respond(now, call.query, call.context, call.use_cache, call.llm,
           IF call.write = "none" THEN "ok" ELSE call.write, Missed)

\* The reply to the request of call, had it been made without
\* send_to_chat; r is what generate_response returns to it.
Plain(call, r) ==
  post_query(files, stats, [Asked(call) EXCEPT !.send_to_chat = FALSE], r, <<>>)

\* The request of call is one for the help channel with send_to_chat.
ToChat(call) == call.send_to_chat /\ call.channel_id = HELP_CHANNEL_ID

\* What generate_response did for the request of call, the records and the
\* counters after the step are those of the reply plain.
Computed(call, plain) ==
  /\ call.deliveries = IF call.raised = "none" THEN 1 ELSE 0
  /\ plain.body = call.ret
  /\ plain.r = [ret |-> call.ret, raised |-> call.raised, message |-> call.message,
                retrievals |-> call.retrievals, generations |-> call.generations,
                gets |-> call.gets, sets |-> call.sets, prompt |-> call.prompt,
                files |-> files', stats |-> stats']

\* The request of call, which did not call the delivery, is answered as
\* plain, and has sent nothing.
Isolated(call, plain) ==
  /\ Computed(call, plain)
  /\ call.deliveries = 0
  /\ call.sent = <<>>
  /\ call.status = plain.status
  /\ call.detail = plain.detail

\* The request w has the result of generate_response in the step and
\* begins to wait in the first messages_ref.add of its delivery; the
\* call w ends that wait in the step; a request leaves chain.invoke in
\* the step.
Delivers(w) == w.pc = "add" /\ CopiesIn(w, waiting') = CopiesIn(w, waiting) + 1
Added(w) == w.pc = "add" /\ CopiesIn(w, waiting') = CopiesIn(w, waiting) - 1
Invoked == \E v \in BagToSet(waiting) : v.pc = "invoke" /\ CopiesIn(v, waiting') < CopiesIn(v, waiting)

\* The messages the step adds to the chat storage.
Posted == SubSeq(chat', Len(chat) + 1, Len(chat'))

\* C18: the delivery is called only when generate_response has returned:
\* a request that waits for the chain has added nothing to the chat
\* storage, a request with send_to_chat for which generate_response raises
\* is answered as the same request without send_to_chat and adds nothing,
\* and in the step in which generate_response returns to a request with
\* send_to_chat nothing is added either, and the response, the calls of
\* the search, the cache and the chain, the records and the counters are
\* those of the same request without send_to_chat, which is answered with
\* status 200.  The steps of the delivery, which follow, add nothing but
\* the typing indicator, the answer of the response and the apology, change
\* neither the records nor the counters, and however the adds of the
\* delivery end the request is answered with status 200 and the response it
\* had when the delivery began.
C18_DeliveryIsolated ==
  [][/\ (Calls("query") /\ waiting' = waiting /\ ToChat(last')) =>
          /\ Isolated(last', Plain(last', Through(last')))
          /\ chat' = chat
     /\ \A w \in BagToSet(waiting) :
          (Resumes(w) /\ ToChat(last')) =>
            /\ Isolated(last', Plain(last', Afterwards(last')))
            /\ chat' = chat
     /\ \A w \in BagToSet(waiting') : Waits(w) => chat' = chat
     /\ \A w \in BagToSet(waiting') :
          Delivers(w) =>
            /\ ToChat(w.entry)
            /\ chat' = chat
            /\ w.entry.sent = <<>>
            /\ Computed(w.entry, Plain(w.entry, IF Invoked THEN Afterwards(w.entry) ELSE Through(w.entry)))
            /\ Plain(w.entry, IF Invoked THEN Afterwards(w.entry) ELSE Through(w.entry)).status = 200
     /\ \A w \in BagToSet(waiting) :
          (Added(w) \/ Woken(w)) =>
            /\ files' = files
            /\ stats' = stats
            /\ \A i \in 1..Len(Posted) :
                 Posted[i].content \in {Thinking, Apology, Payload(Lookup(w.entry.ret, "answer"))}
            /\ IF \E v \in BagToSet(waiting') : Sleeps(v)
               THEN UNCHANGED <<calls, last>>
               ELSE /\ Calls("query")
                    /\ last'.firestore \in FirestoreOutcomes
                    /\ last' = [w.entry EXCEPT !.status = 200, !.detail = "",
                                               !.sent = last'.sent,
                                               !.firestore = last'.firestore]]_vars

\* A request was answered with its response although the delivery ended
\* with an exception: the answer and then the apology could not be sent.
C18_Witness ==
  /\ last.op = "query"
  /\ last.send_to_chat
  /\ last.firestore = <<TRUE, FALSE, FALSE>>
  /\ last.sent = <<Thinking>>
  /\ last.status = 200
  /\ Lookup(last.ret, "answer") = Str("A1")
  /\ chat = <<[channel_id |-> HELP_CHANNEL_ID, content |-> Thinking]>>

(***************************************************************************)
(* Properties of the outcome of a request, under Spec.                     *)
(***************************************************************************)
ResponseFields == {"answer", "context", "timestamp", "query", "cached"}

\* v is a response object with every field populated, for the request of
\* call: the answer and the timestamp are texts, the timestamp in ISO
\* format, the context is the list of passages retrieved for the request,
\* the query is its query, and cached is a truth value.
IsComplete(v, call) ==
  /\ TypeOf(v) = "dict"
  /\ {Payload(v)[i][1] : i \in 1..Len(Payload(v))} = ResponseFields
  /\ TypeOf(Lookup(v, "answer")) = "str"
  /\ Payload(Lookup(v, "answer")) # ""
  /\ Lookup(v, "context") = call.context
  /\ TypeOf(Lookup(v, "timestamp")) = "str"
  /\ IsIsoFormat(Payload(Lookup(v, "timestamp")))
  /\ Lookup(v, "query") = Str(call.query)
  /\ Lookup(v, "cached") \in {Bool(TRUE), Bool(FALSE)}

\* C19: a request either returns a response object with all of answer,
\* context, timestamp, query and cached populated, from the chain or from
\* the cache, or it raises one error and returns nothing.  It does not
\* hold: a stored record that has lost its answer is served as a hit.
C19_CompleteOrError ==
  last.op = "generate_response" =>
    \/ /\ last.raised = "none"
       /\ IsComplete(last.ret, last)
    \/ /\ last.raised = "QueryError"
       /\ last.message # ""
       /\ last.ret = None

\* C20: a request whose query fails validation calls neither the search,
\* the chain nor the cache, waits for none of them, and leaves the records
\* and the four counters as they were.
C20_RejectionFrame ==
  [][/\ \A w \in BagToSet(waiting') :
          Waits(w) => _validate_query(w.entry.query) = "ok"
     /\ (Calls("generate_response") /\ _validate_query(last'.query) # "ok") =>
       /\ waiting' = waiting
       /\ last'.raised = "QueryError"
       /\ last'.message \in ValidationMessages
       /\ last'.retrievals = 0
       /\ last'.generations = 0
       /\ last'.gets = 0
       /\ last'.sets = 0
       /\ files' = files
       /\ stats' = stats]_vars

\* A request was rejected by validation while records were stored and the
\* counters had counted.
C20_Witness ==
  /\ last.op = "generate_response"
  /\ last.message \in ValidationMessages
  /\ last.retrievals = 0
  /\ files # NoFiles
  /\ stats.misses > 0

(***************************************************************************)
(* Properties of the cache store over restarts, under SpecRestart.         *)
(***************************************************************************)
\* C21: a new instance on the directory finds the records as they were and
\* starts with all four counters at zero, and its first get of a stored
\* entry that is not older than the ttl is a hit that returns the entry the
\* instance before has written.
C21_RestartServesEntries ==
  [][/\ Calls("__init__") =>
          /\ files' = files
          /\ stats' = ZeroStats
     /\ (/\ Calls("get")
         /\ last.op = "__init__"
         /\ IsEntry(last'.before)
         /\ now - CreatedAt(last'.before) <= ttl_hours) =>
          /\ last'.raised = "none"
          /\ last'.ret = AsCached(last'.before)
          /\ files' = files
          /\ stats' = Incr(ZeroStats, "hits")]_vars

\* The second instance has served the entry that the first instance wrote,
\* and has counted nothing but this hit.
C21_Witness ==
  /\ instance = 2
  /\ last.op = "get"
  /\ last.ret # None
  /\ Lookup(last.ret, "answer") = Str("A1")
  /\ Lookup(last.ret, "cached") = Bool(TRUE)
  /\ Stored(files, last.query, last.context) = last.before
  /\ stats = Incr(ZeroStats, "hits")

(***************************************************************************)
(* Properties of the counters and of the frame of get and set, under       *)
(* SpecCache.                                                              *)
(***************************************************************************)
CounterNames == {"hits", "misses", "expired", "errors"}

\* C22: no call of get, set, clear_expired or get_stats lowers any of the
\* four counters.
C22_CountersMonotone ==
  [][\A counter \in CounterNames : stats'[counter] >= stats[counter]]_vars

\* A sweep has counted the expired record it deleted on top of the miss of
\* an earlier get.
C22_Witness ==
  /\ last.op = "clear_expired"
  /\ last.message = "1"
  /\ stats = [hits |-> 0, misses |-> 1, expired |-> 1, errors |-> 0]

\* The counter a get of the stored text counts at instant t.
Outcome(text, t) ==
  IF text = Absent THEN "misses"
  ELSE IF ~IsEntry(text) THEN "errors"
  ELSE IF t - CreatedAt(text) > ttl_hours THEN "expired"
  ELSE "hits"

\* C23: a get that returns has raised exactly one counter by exactly 1 and
\* left the other three as they were: misses when no record is stored under
\* the key, hits when the record is an entry of age at most ttl, expired
\* when it is an entry older than ttl, errors when it is no entry.
C23_OneCounterPerGet ==
  [][(Calls("get") /\ last'.raised = "none") =>
       stats' = Incr(stats, Outcome(last'.before, now))]_vars

\* A get of an entry whose age is exactly the ttl was counted as a hit.
C23_Witness ==
  /\ last.op = "get"
  /\ IsEntry(last.before)
  /\ now - CreatedAt(last.before) = ttl_hours
  /\ last.ret # None
  /\ stats = Incr(ZeroStats, "hits")

\* C24: a hit leaves the directory as it was: the stored record keeps its
\* timestamp and its cached flag, which is set on the returned value only;
\* the timestamp of a record is the instant of the set that wrote it, and no
\* get serves a record older than the ttl.
C24_HitReadOnly ==
  [][/\ (Calls("get") /\ last'.ret # None) =>
          /\ files' = files
          /\ Stored(files', last'.query, last'.context) = last'.before
          /\ Lookup(last'.ret, "cached") = Bool(TRUE)
          /\ Lookup(last'.ret, "timestamp")
               = Lookup(json_load(last'.before), "timestamp")
          /\ now - CreatedAt(last'.before) <= ttl_hours
     /\ (Calls("set") /\ last'.write = "ok") =>
          CreatedAt(Stored(files', last'.query, last'.context)) = now]_vars

\* The second hit on an entry, at the last instant of its life: the stored
\* record still has the timestamp of its creation and is not marked cached.
C24_Witness ==
  /\ last.op = "get"
  /\ last.ret # None
  /\ stats.hits = 2
  /\ now = ttl_hours
  /\ CreatedAt(Stored(files, last.query, last.context)) = 0
  /\ Lookup(json_load(Stored(files, last.query, last.context)), "cached") = Bool(FALSE)

\* C25: a get and a set leave every record that is stored under another key
\* as it is, and create no record under another key.
C25_OwnKeyOnly ==
  [][(Calls("get") \/ Calls("set")) =>
       \A k \in (DOMAIN files \cup DOMAIN files')
                  \ {CacheKey(last'.query, last'.context)} :
         /\ k \in DOMAIN files
         /\ k \in DOMAIN files'
         /\ files'[k] = files[k]]_vars

\* A get returned while an expired record was stored under another key,
\* and the record is still there.
C25_Witness ==
  /\ last.op = "get"
  /\ \E k \in DOMAIN files \ {CacheKey(last.query, last.context)} :
       IsExpired(files[k], now)

(***************************************************************************)
(* Properties of the steps of a request, under Spec.                       *)
(***************************************************************************)
\* The keys whose record is new or changed in the step.
Written_keys == {k \in DOMAIN files' : k \notin DOMAIN files \/ files'[k] # files[k]}

\* C26: the steps of a request are taken in the order validate, retrieve,
\* look up, generate, store, each only when the one before it has been
\* taken and has succeeded: the search is called for a valid query only,
\* the cache is looked up after the search, the chain is invoked only when
\* the lookup has returned nothing (the request then waits for the chain,
\* and has written nothing), and the entry is written only when the chain
\* has answered, in the step in which the request returns; a request that
\* ends with an error has written no record, and a record written is the
\* response of the request, under its own key.
C26_StoreAfterGeneration ==
  [][/\ \A w \in BagToSet(waiting') :
          Waits(w) =>
            /\ _validate_query(w.entry.query) = "ok"
            /\ w.entry.retrievals = 1
            /\ w.entry.context # None
            /\ Written_keys = {}
            /\ w.entry.use_cache =>
                 /\ w.entry.gets = 1
                 /\ get(files, stats, now, w.entry.query,
                        w.entry.context).ret = None
     /\ Calls("generate_response") =>
       /\ last'.retrievals = 1 => _validate_query(last'.query) = "ok"
       /\ last'.gets = 1 => last'.retrievals = 1 /\ last'.context # None
       /\ last'.generations = 1 =>
            /\ \E w \in BagToSet(waiting) : Resumes(w) /\ w.entry.query = last'.query
            /\ last'.retrievals = 1
            /\ last'.context # None
            /\ last'.use_cache => last'.gets = 1
       /\ last'.generations = 0 => waiting' = waiting /\ Written_keys = {}
       /\ last'.sets = 1 =>
            /\ last'.generations = 1
            /\ last'.gets = 1
            /\ last'.raised = "none"
            /\ Lookup(last'.ret, "cached") = Bool(FALSE)
       /\ last'.raised # "none" => last'.sets = 0 /\ Written_keys = {}
       /\ Written_keys # {} =>
            /\ last'.sets = 1
            /\ Written_keys = {CacheKey(last'.query, last'.context)}
            /\ last'.write = "ok" =>
                 Stored(files', last'.query, last'.context) = json_dump(last'.ret)]_vars

\* A request that missed has stored the response the chain gave it.
C26_Witness ==
  /\ last.op = "generate_response"
  /\ last.raised = "none"
  /\ last.gets = 1
  /\ last.generations = 1
  /\ last.sets = 1
  /\ last.write = "ok"
  /\ last.before = Absent
  /\ Stored(files, last.query, last.context) = json_dump(last.ret)

\* C27: a request calls the search at most once and the chain at most once,
\* and a request whose search or whose chain has failed ends with an error
\* after that one call.
C27_NoRetry ==
  [][Calls("generate_response") =>
       /\ last'.retrievals <= 1
       /\ last'.generations <= 1
       /\ last'.message = "Error performing search" =>
            /\ last'.raised = "QueryError"
            /\ last'.retrievals = 1
            /\ last'.generations = 0
       /\ (last'.generations >= 1 /\ last'.sets = 0 /\ last'.use_cache) =>
            /\ last'.raised = "QueryError"
            /\ last'.message = "Error generating response"
            /\ last'.ret = None]_vars

\* A request has ended with the error of the chain after one invocation.
C27_Witness ==
  /\ last.op = "generate_response"
  /\ last.raised = "QueryError"
  /\ last.message = "Error generating response"
  /\ last.retrievals = 1
  /\ last.generations = 1

\* The last request, with use_cache, found an entry that was expired,
\* received the answer of the chain and stored its response; no request is
\* under way.
Healed ==
  /\ Quiet
  /\ last.op = "generate_response"
  /\ last.use_cache
  /\ last.generations = 1
  /\ last.raised = "none"
  /\ last.write = "ok"
  /\ IsExpired(last.before, CreatedAt(json_dump(last.ret)))

\* C29: a request with use_cache that finds an expired entry under its key
\* has the entry deleted and counted as expired in the step of its lookup,
\* and waits for the chain, which it invokes once; when the chain answers
\* and the write succeeds, the entry of the new response is stored under
\* the same key with the timestamp of the return, and the next identical
\* request within the ttl of that entry does not wait for the chain: it is
\* a hit, counted as one, that returns the new response and leaves the
\* directory as it is.  When the chain fails, the request writes nothing.
C29_ExpiredSelfHeals ==
  [][/\ \A w \in BagToSet(waiting') :
          (Waits(w) /\ w.entry.use_cache
             /\ IsExpired(w.entry.before, now)) =>
            /\ stats'.expired = stats.expired + 1
            /\ Stored(files', w.entry.query, w.entry.context) = Absent
     /\ (Calls("generate_response") /\ last'.use_cache
           /\ IsExpired(last'.before, now)) =>
       /\ \E w \in BagToSet(waiting) : Resumes(w)
       /\ last'.gets = 1
       /\ last'.generations = 1
       /\ last'.raised # "none" => files' = files
       /\ (last'.raised = "none" /\ last'.write = "ok") =>
            /\ Stored(files', last'.query, last'.context) = json_dump(last'.ret)
            /\ CreatedAt(json_dump(last'.ret)) = now
     /\ \A w \in BagToSet(waiting') : (Healed /\ Waits(w)) => ~Second(w.entry)
     /\ (Healed /\ Calls("generate_response") /\ Second(last')) =>
          /\ last'.raised = "none"
          /\ last'.generations = 0
          /\ last'.ret = AsCached(json_dump(last.ret))
          /\ stats' = Incr(stats, "hits")
          /\ files' = files]_vars

\* The expired entry with the answer A1 was replaced by the entry of a
\* request whose answer is A2, and the next identical request, at the last
\* instant within the ttl of the new entry, was a hit with the answer A2.
C29_Witness ==
  /\ calls = 2
  /\ last.op = "generate_response"
  /\ last.generations = 0
  /\ last.raised = "none"
  /\ Lookup(last.ret, "cached") = Bool(TRUE)
  /\ Lookup(last.ret, "answer") = Str("A2")
  /\ now - CreatedAt(json_dump(last.ret)) = ttl_hours
  /\ last.before = Stored(files, last.query, last.context)
  /\ stats = [hits |-> 1, misses |-> 0, expired |-> 1, errors |-> 0]

\* C30: every stored entry is stored under the key derived from its own
\* query and its own context, and a request served from the cache returns
\* an entry whose query and context are those of the request.
C30_StoreConsistent ==
  /\ \A k \in DOMAIN files :
       IsEntry(files[k]) =>
         /\ HasKey(json_load(files[k]), "query")
         /\ HasKey(json_load(files[k]), "context")
         /\ k = CacheKey(Payload(Lookup(json_load(files[k]), "query")),
                         Lookup(json_load(files[k]), "context"))
  /\ (/\ last.op = "generate_response"
      /\ last.raised = "none"
      /\ last.generations = 0) =>
       /\ Lookup(last.ret, "query") = Str(last.query)
       /\ Lookup(last.ret, "context") = last.context

\* Two requests for one query have stored an entry each, one for each list
\* of passages.
C30_Witness ==
  /\ Cardinality({k \in DOMAIN files : IsEntry(files[k])}) = 2
  /\ \A k \in DOMAIN files : Lookup(json_load(files[k]), "query") = Str(last.query)
  /\ last.op = "generate_response"
  /\ last.raised = "none"
  /\ last.generations = 1
  /\ Stored(files, last.query, last.context) = json_dump(last.ret)

(***************************************************************************)
(* Properties of the delivery, under SpecChat.                             *)
(***************************************************************************)
\* C28: a call of send_bot_message or of handle_query_response for a
\* channel other than the help channel returns without adding a message to
\* the chat storage; handle_query_response for the help channel adds its
\* messages to that channel, the typing indicator first whenever its write
\* succeeds, in a step before the one that adds what follows it, and the
\* answer only as the message of the call next after its typing indicator.
C28_HelpChannelOnly ==
  [][/\ (Calls("send_bot_message") \/ Calls("handle_query_response")) =>
          /\ last'.channel_id # HELP_CHANNEL_ID =>
               /\ chat' = chat
               /\ waiting' = waiting
               /\ last'.sent = <<>>
               /\ last'.raised = "none"
          /\ \A i \in 1..Len(Posted) : Posted[i].channel_id = last'.channel_id
          /\ (Calls("handle_query_response")
                /\ last'.channel_id = HELP_CHANNEL_ID) =>
               /\ last'.firestore[1] =>
                    /\ last'.sent[1] = Thinking
                    /\ \E w \in BagToSet(waiting) : Woken(w) /\ w.entry.sent = <<Thinking>>
                    /\ Len(Posted) = Len(last'.sent) - 1
                    /\ \A i \in 2..Len(last'.sent) : Posted[i - 1].content = last'.sent[i]
               /\ ~last'.firestore[1] =>
                    /\ \E w \in BagToSet(waiting) : Added(w)
                    /\ Len(Posted) = Len(last'.sent)
                    /\ \A i \in 1..Len(last'.sent) : Posted[i].content = last'.sent[i]
               /\ \A i \in 1..Len(last'.sent) :
                    last'.sent[i] = last'.content =>
                      i = 2 /\ last'.sent[1] = Thinking
               /\ (last'.firestore[1] /\ last'.firestore[2]) =>
                    last'.sent = <<Thinking, last'.content>>
     /\ \A w \in BagToSet(waiting') :
          Delivers(w) =>
            /\ w.entry.channel_id = HELP_CHANNEL_ID
            /\ chat' = chat
     /\ \A w \in BagToSet(waiting') :
          Sleeps(w) =>
            /\ w.entry.channel_id = HELP_CHANNEL_ID
            /\ \E v \in BagToSet(waiting) : Added(v)
            /\ chat' = Append(chat, [channel_id |-> HELP_CHANNEL_ID, content |-> Thinking])]_vars

\* Two calls of the delivery are over, the last a delivery to the help
\* channel that waited behind its typing indicator, and the chat storage
\* holds the two messages of that one: the other call added nothing.
C28_Witness ==
  /\ last.op = "handle_query_response"
  /\ last.channel_id = HELP_CHANNEL_ID
  /\ last.sent = <<Thinking, "A1">>
  /\ calls = 2
  /\ chat = <<[channel_id |-> HELP_CHANNEL_ID, content |-> Thinking],
              [channel_id |-> HELP_CHANNEL_ID, content |-> "A1"]>>

====
